---- MODULE Spec2Model ----
(***************************************************************************)
(* Memory-management core of the kernel: the virtual page allocators of   *)
(* src/src/mem/vpa.rs (bootstrap EarlyAllocator, TreeAllocator), the      *)
(* physical allocators of src/src/mem/init.rs and src/src/mem/pmm.rs, and *)
(* the heap OOM handler of src/src/mem/malloc.rs.                         *)
(*                                                                         *)
(* Option<T> is modelled as a set with at most one element: None is {}    *)
(* and Some(x) is {x}.  A red-black tree is modelled as the sequence of   *)
(* its nodes in key order; nodes with equal keys keep insertion order, as *)
(* intrusive_collections::RBTree::insert places a new node after the      *)
(* nodes whose key equals its own.                                        *)
(***************************************************************************)
EXTENDS Integers, Sequences, FiniteSets, TLC

VARIABLES
    vpa_kind,      \* "none" | "reserving" | "early" | "tree" | "failed": which VirtualAllocator exists
    vm_range,      \* the range handed to VirtualAllocator::early
    free_ranges,   \* EarlyAllocator.free_ranges (ArrayVec<VFRange, 8>)
    by_base,       \* TreeAllocator.by_base, in key order
    by_size,       \* TreeAllocator.by_size, in key order
    handles,       \* VirtualAllocation handles alive with is_dropped = false
    leaked,        \* allocations whose handle was leak()ed and that were not freed since
    vpa_halted,    \* a panic was raised inside the allocator (the core halts)
    vpa_last,      \* the last allocator call: operation, arguments, result, free list before
    vpa_calls,     \* allocate and free calls made so far
    \* physical memory
    memory_map,    \* the boot memory map: entries <<start, size, entry_type>> in order
    phase,         \* "boot" (bootstrap allocator in use) | "ready" (init_pdt done) | "halted"
    early_pmm,     \* EarlyPMMInner: index, offset, is_frozen
    early_handed,  \* frames the bootstrap allocator has returned
    pdt,           \* the page-descriptor table: frame -> descriptor, once written
    pdt_len,       \* PDTData.len
    pdt_mapped,    \* pages of the descriptor array mapped by init_pdt: <<page, frame>>
    free_list,     \* PDTData.free_list: Option<PageFrameNumber>
    pmm_lock,      \* the core holding the free_list mutex, as an Option
    pc,            \* per core: where it is in PMM::allocate_single_page
    head,          \* per core: the Option<PageFrameNumber> that inspect() was called on
    allocated,     \* how many times allocate_single_page returned each frame
    tables,        \* page tables present in the kernel address space: <<level, slot>>
    \* heap
    heap,          \* BumpHeap as an Option: range, limit
    heap_mapped,   \* heap pages mapped by handle_oom: <<page, frame>>
    heap_last,     \* the last handle_oom call: pages asked, limit before, result
    \* paging
    mr_args,       \* the arguments of the last PageTableSet::map_range call, as an Option
    mr_calls,      \* the map_page_* calls that map_range call made, in order
    \* interrupts and IntMutex
    irq,           \* per core: the interrupt-enable flag
    int_lock,      \* per IntMutex: its `lock` AtomicBool
    guards,        \* per core: the IntMutexGuards it holds, the innermost last
    lk,            \* per core: where it is in IntMutex::lock, a guard's drop or do_action
    mapping,       \* per core: the map_page_* call it is in, as an Option
    dropped,       \* the last guard dropped, as an Option: core, flag before lock(), flag after
    \* page-table sets
    pt_roots,      \* the root tables, in the order of their creation: index -> table or 0
    pt_subs,       \* the tables that root entries point to: the pages mapped below each
    pt_origin,     \* per root table: the table and the entries duplicate() copied, as an Option
    bootstrap_pt,  \* BOOTSTRAP_PT: Once<PageTableSet>
    local_pt,      \* per core: LOCAL_PAGE_TABLE: Once<PageTableSet>
    \* backed allocations
    backed,        \* the handles that are BackedVirtualAllocations
    backed_last,   \* the last allocate_backed_padded call: frames taken, pages mapped
    \* sizes
    round_arg,     \* the byte size page_size_roundup is called on, and the kind of build
    round_last,    \* the page_size_roundup call made, as an Option: bytes, outcome, pages
    \* boot-time singletons
    once,          \* per spin::Once static: its status, its value, the value being stored
    once_calls,    \* per spin::Once static: the values call_once was called with, in order
    once_last,     \* the last get(): the static, the result, the value, the calls before it
    \* command line
    lex_data,      \* the string CmdlineLexer::new was called on, a sequence of characters
    lexer,         \* the CmdlineLexer as an Option: the position of its Lexer, `current`
    lex_calls,     \* the calls made on the lexer, in order: operation, argument, result
    lex_consumed,  \* the tokens the handler of the last parse_block consumed, in order
    \* page-table entries
    pt_entry,      \* the entries that point to a table: <<table, index, frame of the table>>
    pt_leaves,     \* the entries of the PTs that map a page: <<table, index>>
    pt_next,       \* the frame the allocator hands out for the next table
    walker,        \* per core: where it is in the walk of its map_page_small call
    walk_done,     \* the map_page_small calls that returned: core, page
    \* mem::init
    vm_layout,     \* the VirtualMemoryLayout stored in VM_LAYOUT, as an Option
    init_panic,    \* the message of the expect that ended mem::init, as an Option
    \* the locks of the memory core and the global allocator
    locks,         \* per lock: the cores that hold its guard
    prog,          \* per core: the lock and unlock steps left of the operation it runs
    blocks,        \* the live blocks of the heap: owner, size, contents (0: not written)
    ra             \* per core: where it is in GlobalAllocImpl::realloc

vpaVars == <<vpa_kind, vm_range, free_ranges, by_base, by_size, handles, leaked,
             vpa_halted, vpa_last, vpa_calls>>

pmmVars == <<memory_map, phase, early_pmm, early_handed, pdt, pdt_len, pdt_mapped,
             free_list, pmm_lock, pc, head, allocated, tables>>

heapVars == <<heap, heap_mapped, heap_last>>

mapVars == <<mr_args, mr_calls>>

lockVars == <<irq, int_lock, guards, lk, mapping, dropped>>

setVars == <<pt_roots, pt_subs, pt_origin, bootstrap_pt, local_pt>>

backedVars == <<backed, backed_last>>

roundVars == <<round_arg, round_last>>

onceVars == <<once, once_calls, once_last>>

lexVars == <<lex_data, lexer, lex_calls, lex_consumed>>

walkVars == <<pt_entry, pt_leaves, pt_next, walker, walk_done>>

initVars == <<vm_layout, init_panic>>

coreVars == <<locks, prog, blocks, ra>>

restVars == <<roundVars, onceVars, lexVars, walkVars, initVars, coreVars>>

pagingVars == <<mapVars, lockVars, setVars, backedVars, restVars>>

vars == <<vpaVars, pmmVars, heapVars, pagingVars>>

(***************************************************************************)
(* Bounds of the model.                                                    *)
(***************************************************************************)
NumPages == 5        \* pages of the virtual range given to early()
MaxSize == 2         \* largest size requested from allocate_padded
MaxPadding == 1      \* largest padding requested from allocate_padded
MaxCalls == 4        \* allocate and free calls made on the virtual allocators
MaxAnyCalls == 3     \* calls after which no caller frees a range it does not own
MaxEntries == 2      \* entries of the boot memory map
MaxEntrySize == 6    \* frames of the largest memory-map entry
NumCores == 2        \* cores calling the permanent physical allocator
MaxHeapPages == 2    \* pages of the heap's reserved range
MaxSmall == 3        \* small pages before and after the aligned part of a mapped range
MaxMedium == 2       \* medium pages before and after the large-aligned part of a mapped range
U64_BITS == 16       \* the width of a u64 in the model, in bits
MaxInits == 2        \* initialization calls made on each boot-time singleton
MaxChars == 5        \* characters of a command line
MaxLexCalls == 2     \* calls made on a lexer
LayoutPadding == 1   \* pages of `padding` in init_vm_layout
LayoutPages == 96    \* pages between the base of the higher half and the kernel
MaxMissing == 1      \* page tables a map_page_small call has to create
MaxReallocs == 1     \* calls of realloc by a core
MaxInitCalls == 1    \* calls made on the tree allocator after init

(***************************************************************************)
(* Sequence helpers (ArrayVec::remove, ArrayVec::try_insert).              *)
(***************************************************************************)
RemoveAt(s, i) == SubSeq(s, 1, i - 1) \o SubSeq(s, i + 1, Len(s))

InsertAt(s, i, x) == SubSeq(s, 1, i - 1) \o <<x>> \o SubSeq(s, i, Len(s))

MinOf(S) == CHOOSE x \in S : \A y \in S : x <= y

(***************************************************************************)
(* VFRange and AddressRange (src/src/mem/types.rs).                        *)
(***************************************************************************)
VFRange(min, max) == [start |-> min, end |-> max]

\* A sized() that takes its second argument as the end of the range.
sized_to(base, sz) == VFRange(base, sz)

sized(base, sz) == VFRange(base, base + sz)

size(r) == r.end - r.start

empty(r) == r.start = r.end

\* An is_sub_range that compares the starts only.
is_sub_range_start(self, range) == self.start <= range.start

is_sub_range(self, range) == self.start <= range.start /\ range.end <= self.end

intersects(self, range) == self.start < range.end /\ range.start < self.end

is_sorted(s) == \A i \in 1..(Len(s) - 1) : s[i].start <= s[i + 1].start

(***************************************************************************)
(* EarlyAllocator.                                                         *)
(***************************************************************************)
EARLY_CAPACITY == 8

EarlyAllocator_new(range) == <<range>>

\* One call of reserve_range on the free list `free`.
reserve_range(free, range) ==
    LET hit == {i \in 1..Len(free) : intersects(free[i], range)}
    IN  IF hit = {} THEN [result |-> "Err", free |-> free]
        ELSE LET index == MinOf(hit)
                 value == free[index]
             IN  IF ~is_sub_range(value, range)
                 THEN [result |-> "Err", free |-> free]
                 ELSE LET pre == VFRange(value.start, range.start)
                          post == VFRange(range.end, value.end)
                          removed == RemoveAt(free, index)
                      IN  IF Len(removed) + 2 > EARLY_CAPACITY
                          THEN [result |-> "panic", free |-> free]
                          ELSE LET res == InsertAt(InsertAt(removed, index, pre),
                                                   index + 1, post)
                               IN  IF is_sorted(res)
                                   THEN [result |-> "Ok", free |-> res]
                                   ELSE [result |-> "panic", free |-> res]

\* The loop of VirtualAllocator::early over reservations k, k+1, ...
RECURSIVE reserve_all(_, _, _)
reserve_all(free, reservations, k) ==
    IF k > Len(reservations) THEN [result |-> "Ok", free |-> free]
    ELSE LET r == reserve_range(free, reservations[k])
         IN  IF r.result = "Ok" THEN reserve_all(r.free, reservations, k + 1) ELSE r

early(range, reservations) == reserve_all(EarlyAllocator_new(range), reservations, 1)

\* EarlyAllocator::allocate: first fit.
early_allocate(free, sz) ==
    LET fit == {i \in 1..Len(free) : size(free[i]) >= sz}
    IN  IF fit = {} THEN [result |-> "None", base |-> 0, free |-> free]
        ELSE LET index == MinOf(fit)
                 value == free[index]
                 new_range == VFRange(value.start + sz, value.end)
                 res == IF empty(new_range) THEN RemoveAt(free, index)
                        ELSE [free EXCEPT ![index] = new_range]
             IN  IF is_sorted(res)
                 THEN [result |-> "Some", base |-> value.start, free |-> res]
                 ELSE [result |-> "panic", base |-> value.start, free |-> res]

(***************************************************************************)
(* TreeAllocator.                                                          *)
(***************************************************************************)
BaseKey(r) == r.start

\* A size tree keyed by the end of the range instead of its size.
SizeKey_by_end(r) == r.end

SizeKey(r) == size(r)

\* KeyAdapter::get_key of the tree's adapter.
get_key(adapter, e) == IF adapter = "base" THEN BaseKey(e) ELSE SizeKey(e)

\* RBTree::insert: after every node whose key is <= the new node's key.
rb_insert(tree, adapter, node) ==
    LET after == {i \in 1..Len(tree) : get_key(adapter, node) < get_key(adapter, tree[i])}
    IN  IF after = {} THEN Append(tree, node) ELSE InsertAt(tree, MinOf(after), node)

\* A lower_bound that returns a cursor to the first node, whatever its key.
lower_bound_first(tree, adapter, k) == IF tree = <<>> THEN 0 ELSE 1

\* RBTree::lower_bound(Bound::Included(k)): index of the lowest node whose key is
\* >= k, 0 for the null cursor.
lower_bound_included(tree, adapter, k) ==
    LET above == {i \in 1..Len(tree) : k <= get_key(adapter, tree[i])}
    IN  IF above = {} THEN 0 ELSE MinOf(above)

\* RBTree::lower_bound(Bound::Excluded(k)): index of the lowest node whose key is
\* > k, 0 for the null cursor.
lower_bound_excluded(tree, adapter, k) ==
    LET above == {i \in 1..Len(tree) : k < get_key(adapter, tree[i])}
    IN  IF above = {} THEN 0 ELSE MinOf(above)

\* cursor_mut_from_ptr(node).remove(): unlink that node from the tree.
rb_remove_node(tree, node) ==
    RemoveAt(tree, MinOf({i \in 1..Len(tree) : tree[i] = node}))

\* TreeAllocator::insert: link the node into both trees.
\* An insert that links the node into by_base only.
insert_by_base(t, node) ==
    [by_base |-> rb_insert(t.by_base, "base", node), by_size |-> t.by_size]

\* TreeAllocator::insert.
insert(t, node) ==
    [by_base |-> rb_insert(t.by_base, "base", node),
     by_size |-> rb_insert(t.by_size, "size", node)]

RECURSIVE insert_all(_, _, _)
insert_all(t, ranges, k) ==
    IF k > Len(ranges) THEN t ELSE insert_all(insert(t, ranges[k]), ranges, k + 1)

\* A TreeAllocator::new seeded with one node spanning the free list from its first
\* range to its last.
TreeAllocator_new_spanning(ranges) ==
    IF ranges = <<>> THEN [by_base |-> <<>>, by_size |-> <<>>]
    ELSE insert([by_base |-> <<>>, by_size |-> <<>>],
                VFRange(ranges[1].start, ranges[Len(ranges)].end))

TreeAllocator_new(ranges) == insert_all([by_base |-> <<>>, by_size |-> <<>>], ranges, 1)

\* What allocate leaves of the node it serves the request from.
\* A remainder that keeps the head of the node instead of its tail.
remainder_head(node, sz) == VFRange(node.start, node.end - sz)

remainder(node, sz) == VFRange(node.start + sz, node.end)

\* TreeAllocator::allocate.
tree_allocate(t, sz) ==
    LET cursor == lower_bound_included(t.by_size, "size", sz)
    IN  IF cursor = 0 THEN [result |-> "None", base |-> 0, tree |-> t]
        ELSE LET node == t.by_size[cursor]
                 removed == [by_base |-> rb_remove_node(t.by_base, node),
                             by_size |-> RemoveAt(t.by_size, cursor)]
                 rest == remainder(node, sz)
             IN  [result |-> "Some", base |-> node.start,
                  tree |-> IF ~empty(rest) THEN insert(removed, rest) ELSE removed]

\* The overlap test at the head of TreeAllocator::free.
free_rejects(t, range) ==
    LET left_cursor == lower_bound_excluded(t.by_base, "base", range.start)
        right_cursor == lower_bound_included(t.by_base, "base", range.end)
    IN  \/ left_cursor # 0 /\ intersects(t.by_base[left_cursor], range)
        \/ right_cursor # 0 /\ intersects(t.by_base[right_cursor], range)

\* The left-neighbour step of TreeAllocator::free: the tree and the range after it.
absorb_left(t, range) ==
    LET cursor == lower_bound_excluded(t.by_base, "base", range.start)
    IN  IF cursor # 0 /\ t.by_base[cursor].end = range.start
        THEN LET left == t.by_base[cursor]
             IN  [tree |-> [by_base |-> RemoveAt(t.by_base, cursor),
                            by_size |-> rb_remove_node(t.by_size, left)],
                  range |-> VFRange(left.start, range.end)]
        ELSE [tree |-> t, range |-> range]

\* A right-neighbour step that extends the range and leaves the neighbour linked.
absorb_right_keep(t, range) ==
    LET cursor == lower_bound_included(t.by_base, "base", range.end)
    IN  IF cursor # 0 /\ t.by_base[cursor].start = range.end
        THEN [tree |-> t, range |-> VFRange(range.start, t.by_base[cursor].end)]
        ELSE [tree |-> t, range |-> range]

\* The right-neighbour step of TreeAllocator::free.
absorb_right(t, range) ==
    LET cursor == lower_bound_included(t.by_base, "base", range.end)
    IN  IF cursor # 0 /\ t.by_base[cursor].start = range.end
        THEN LET right == t.by_base[cursor]
             IN  [tree |-> [by_base |-> RemoveAt(t.by_base, cursor),
                            by_size |-> rb_remove_node(t.by_size, right)],
                  range |-> VFRange(range.start, right.end)]
        ELSE [tree |-> t, range |-> range]

\* TreeAllocator::free.
tree_free(t, range) ==
    IF free_rejects(t, range) THEN [result |-> "Err", tree |-> t]
    ELSE LET l == absorb_left(t, range)
             r == absorb_right(l.tree, l.range)
         IN  [result |-> "Ok", tree |-> insert(r.tree, r.range)]

(***************************************************************************)
(* VirtualAllocator<T>: the operations of the allocator and its handles.   *)
(* Every operation takes the allocator's lock for the whole call of the    *)
(* handler, so each is one atomic step.                                    *)
(***************************************************************************)
NoRange == VFRange(0, 0)

\* free_list_iterator of the allocator that exists.
FreeList == IF vpa_kind = "tree" THEN by_base ELSE free_ranges

TreeState == [by_base |-> by_base, by_size |-> by_size]

Call(op, range, sz, padding, result, base) ==
    [op |-> op, range |-> range, size |-> sz, padding |-> padding,
     result |-> result, base |-> base, before |-> FreeList]

\* The ranges a caller can build with VFRange::new inside `range`.
AllRanges(range) ==
    {VFRange(a, b) : a \in range.start..range.end, b \in range.start..range.end} \
        {r \in [start : range.start..range.end, end : range.start..range.end] : r.start > r.end}

\* init_vm_layout passes one reservation (the direct map and its padding).
ReservationLists(range) == {<<>>} \cup {<<r>> : r \in AllRanges(range)}

\* The seeding of the tree-allocator scenario: [0,25) with [10,20) reserved.
ScenarioRange == VFRange(0, 25)

ScenarioReservations == <<VFRange(10, 20)>>

GenericConfigs ==
    {[range |-> VFRange(0, NumPages), reservations |-> rs] :
        rs \in ReservationLists(VFRange(0, NumPages))}

EarlyConfigs ==
    GenericConfigs \cup {[range |-> ScenarioRange, reservations |-> ScenarioReservations]}

VpaInit ==
    /\ vpa_kind = "none"
    /\ vm_range = NoRange
    /\ free_ranges = <<>>
    /\ by_base = <<>>
    /\ by_size = <<>>
    /\ handles = {}
    /\ leaked = {}
    /\ vpa_halted = FALSE
    /\ vpa_last = [op |-> "-", range |-> NoRange, size |-> 0, padding |-> 0,
                   result |-> "-", base |-> 0, before |-> <<>>]
    /\ vpa_calls = 0

\* VirtualAllocator::early(range, reservations).
VirtualAllocator_early(range, reservations) ==
    /\ vpa_kind = "none"
    /\ LET r == early(range, reservations)
       IN  /\ vpa_kind' = IF r.result = "Ok" THEN "early" ELSE "failed"
           /\ free_ranges' = IF r.result = "Ok" THEN r.free ELSE <<>>
           /\ vpa_halted' = (r.result = "panic")
           /\ vpa_last' = Call("early", range, 0, 0, r.result, 0)
    /\ vm_range' = range
    /\ UNCHANGED <<by_base, by_size, handles, leaked, vpa_calls>>
    /\ UNCHANGED <<pmmVars, heapVars, pagingVars>>

\* VirtualAllocator::early, one statement at a time: EarlyAllocator::new(range).
early_new(range) ==
    /\ vpa_kind = "none"
    /\ vpa_kind' = "reserving"
    /\ free_ranges' = EarlyAllocator_new(range)
    /\ vm_range' = range
    /\ UNCHANGED <<by_base, by_size, handles, leaked, vpa_halted, vpa_last, vpa_calls>>
    /\ UNCHANGED <<pmmVars, heapVars, pagingVars>>

\* One iteration of the loop of VirtualAllocator::early: early.reserve_range(ele)?
\* on the next element of `reservations`.
early_reserve(ele) ==
    /\ vpa_kind = "reserving"
    /\ \E r \in {reserve_range(free_ranges, ele)} :
           /\ vpa_kind' = IF r.result = "Ok" THEN "reserving" ELSE "failed"
           /\ free_ranges' = r.free
           /\ vpa_halted' = (r.result = "panic")
           /\ vpa_last' = Call("reserve", ele, 0, 0, r.result, 0)
    /\ UNCHANGED <<vm_range, by_base, by_size, handles, leaked, vpa_calls>>
    /\ UNCHANGED <<pmmVars, heapVars, pagingVars>>

\* The end of `reservations`: Ok(VirtualAllocator { .. }).
early_return ==
    /\ vpa_kind = "reserving"
    /\ vpa_kind' = "early"
    /\ UNCHANGED <<vm_range, free_ranges, by_base, by_size, handles, leaked, vpa_halted,
                   vpa_last, vpa_calls>>
    /\ UNCHANGED <<pmmVars, heapVars, pagingVars>>

\* VirtualAllocatorHandler::allocate of the allocator that exists.
handler_allocate(sz) ==
    IF vpa_kind = "early"
    THEN LET r == early_allocate(free_ranges, sz)
         IN  [result |-> r.result, base |-> r.base, free |-> r.free, tree |-> TreeState]
    ELSE LET r == tree_allocate(TreeState, sz)
         IN  [result |-> r.result, base |-> r.base, free |-> free_ranges, tree |-> r.tree]

\* VirtualAllocatorHandler::free of the allocator that exists; EarlyAllocator::free
\* panics.
handler_free(range) ==
    IF vpa_kind = "early"
    THEN [result |-> "panic", tree |-> TreeState]
    ELSE tree_free(TreeState, range)

\* VirtualAllocator::allocate_padded(size, padding); allocate(size) is the call with
\* padding 0.
allocate_padded(sz, padding) ==
    /\ vpa_kind \in {"early", "tree"}
    /\ ~vpa_halted
    /\ vpa_calls < MaxCalls
    /\ vpa_calls' = vpa_calls + 1
    /\ LET alloc_size == padding + sz + padding
           r == handler_allocate(alloc_size)
       IN  /\ free_ranges' = r.free
           /\ by_base' = r.tree.by_base
           /\ by_size' = r.tree.by_size
           /\ handles' = IF r.result = "Some"
                         THEN handles \cup {[range |-> sized(r.base, alloc_size),
                                             usable |-> sized(r.base + padding, sz)]}
                         ELSE handles
           /\ vpa_halted' = (r.result = "panic")
           /\ vpa_last' = Call("allocate", NoRange, sz, padding, r.result, r.base)
    /\ UNCHANGED <<vpa_kind, vm_range, leaked>>
    /\ UNCHANGED <<pmmVars, heapVars, pagingVars>>

\* VirtualAllocation::leak.
leak(h) ==
    /\ h \in handles
    /\ ~vpa_halted
    /\ handles' = handles \ {h}
    /\ leaked' = leaked \cup {h}
    /\ UNCHANGED <<vpa_kind, vm_range, free_ranges, by_base, by_size, vpa_halted, vpa_last,
                   vpa_calls>>
    /\ UNCHANGED <<pmmVars, heapVars, pagingVars>>

\* VirtualAllocator::free(range), called by the owner of a range or by drop.
do_free(op, range) ==
    LET r == handler_free(range)
    IN  /\ by_base' = r.tree.by_base
        /\ by_size' = r.tree.by_size
        /\ vpa_halted' = (r.result = "panic" \/ (op = "drop" /\ r.result = "Err"))
        /\ vpa_last' = Call(op, range, 0, 0, r.result, 0)
        /\ UNCHANGED <<vpa_kind, vm_range, free_ranges>>

\* Drop of a VirtualAllocation: free(self.range).expect("range already freed?").
drop(h) ==
    /\ h \in handles
    /\ vpa_kind \in {"early", "tree"}
    /\ ~vpa_halted
    /\ vpa_calls < MaxCalls
    /\ vpa_calls' = vpa_calls + 1
    /\ do_free("drop", h.range)
    /\ handles' = handles \ {h}
    /\ UNCHANGED leaked
    /\ UNCHANGED <<pmmVars, heapVars, pagingVars>>

\* VirtualAllocator::free(range) called directly with any range.
free(range) ==
    /\ vpa_kind \in {"early", "tree"}
    /\ ~vpa_halted
    /\ vpa_calls < MaxCalls
    /\ vpa_calls' = vpa_calls + 1
    /\ do_free("free", range)
    /\ leaked' = {h \in leaked : h.range # range /\ h.usable # range}
    /\ UNCHANGED handles
    /\ UNCHANGED <<pmmVars, heapVars, pagingVars>>

\* VirtualAllocator::free(range) called with a range the caller may not own.
free_any(range) ==
    /\ vpa_calls < MaxAnyCalls
    /\ free(range)

\* VirtualAllocator::tree(early): the bootstrap allocator is moved in, so no handle
\* borrowing it is alive.
VirtualAllocator_tree ==
    /\ vpa_kind = "early"
    /\ ~vpa_halted
    /\ handles = {}
    /\ LET t == TreeAllocator_new(free_ranges)
       IN  /\ by_base' = t.by_base
           /\ by_size' = t.by_size
    /\ vpa_kind' = "tree"
    /\ free_ranges' = <<>>
    /\ vpa_last' = Call("tree", NoRange, 0, 0, "-", 0)
    /\ UNCHANGED <<vm_range, handles, leaked, vpa_halted, vpa_calls>>
    /\ UNCHANGED <<pmmVars, heapVars, pagingVars>>

\* The ranges a well-behaved owner may hand to free: a leaked allocation, whole or
\* its usable part.
OwnedRanges == {h.range : h \in leaked} \cup {h.usable : h \in leaked}

(***************************************************************************)
(* The boot memory map (MemoryMapView) and the bootstrap physical          *)
(* allocator EarlyPMM (src/src/mem/init.rs).                               *)
(***************************************************************************)
PAGE_SMALL_SIZE == 4096

\* size_of::<page_info::Page>(), fixed by the const_assert of pmm.rs.
PAGE_INFO_SIZE == 64

\* The values of a u64: the model's words are U64_BITS wide.
U64 == 2 ^ U64_BITS

\* ByteSize::page_size_roundup: the sum is a u64 and wraps where the build does not
\* check the overflow.
page_size_roundup(bytes) == ((bytes + PAGE_SMALL_SIZE - 1) % U64) \div PAGE_SMALL_SIZE

\* The sum of page_size_roundup overflows: a panic in a build with overflow checks.
roundup_overflows(bytes) == bytes + PAGE_SMALL_SIZE - 1 >= U64

\* ByteSize::from(PageSize): checked_mul(PAGE_SMALL_SIZE).unwrap(), None on overflow.
checked_mul(pages, by) == IF pages * by >= U64 THEN {} ELSE {pages * by}

\* Of the nine kinds of MemoryMapType the model draws from these: the allocators
\* tell Usable from the rest.
EntryTypes == {"Usable", "Reserved", "BadMemory"}

\* Sizes of an entry, in frames.
EntrySizes == {1, MaxEntrySize}

\* Frames that no entry covers between one entry and the next.
Gaps == {0, 1}

\* First frames of the first entry: frame 0, and the last frame whose descriptor
\* lies in the first page of the descriptor array.
FirstStarts == {0, PAGE_SMALL_SIZE \div PAGE_INFO_SIZE - 1}

Entry(start, sz, type) == [start |-> start, size |-> sz, entry_type |-> type]

\* Memory maps as the loader gives them: sorted by base and not overlapping.
RECURSIVE MapsFrom(_, _)
MapsFrom(from, n) ==
    IF n = 0 THEN {<<>>}
    ELSE {<<>>} \cup
         UNION {UNION {{<<Entry(from + gap, sz, type)>> \o rest :
                           rest \in MapsFrom(from + gap + sz, n - 1)} :
                       sz \in EntrySizes, type \in EntryTypes} :
                gap \in Gaps}

MemoryMaps ==
    UNION {UNION {{<<Entry(first, sz, type)>> \o rest :
                      rest \in MapsFrom(first + sz, MaxEntries - 1)} :
                  sz \in EntrySizes, type \in EntryTypes} :
           first \in FirstStarts}

\* MemoryMapView::at(index), with the index counted from 0 as in the source.
at(index) == memory_map[index + 1]

MaxOf(S) == CHOOSE x \in S : \A y \in S : y <= x

\* hhdm_size of init_vm_layout: the pages up to the highest address of the map.
hhdm_size(map) == MaxOf({map[i].start + map[i].size : i \in 1..Len(map)})

\* The loop of EarlyPMM::allocate_single_page: the cursor it stops at, or a panic
\* when the map is exhausted.
RECURSIVE early_scan(_, _)
RECURSIVE early_scan_any(_, _)
\* A scan that stops at a frame of any entry, Usable or not.
early_scan_any(index, offset) ==
    IF offset < at(index).size
    THEN [result |-> "Some", index |-> index, offset |-> offset]
    ELSE IF index + 1 >= Len(memory_map)
         THEN [result |-> "panic", index |-> index + 1, offset |-> 0]
         ELSE early_scan_any(index + 1, 0)

early_scan(index, offset) ==
    IF offset < at(index).size /\ at(index).entry_type = "Usable"
    THEN [result |-> "Some", index |-> index, offset |-> offset]
    ELSE IF index + 1 >= Len(memory_map)
         THEN [result |-> "panic", index |-> index + 1, offset |-> 0]
         ELSE early_scan(index + 1, 0)

\* EarlyPMM::allocate_single_page on the cursor `state`.
early_allocate_single_page(state) ==
    IF state.is_frozen
    THEN [result |-> "panic", frame |-> 0, state |-> state]
    ELSE LET at_ == early_scan(state.index, state.offset)
         IN  IF at_.result = "panic"
             THEN [result |-> "panic", frame |-> 0,
                   state |-> [state EXCEPT !.index = at_.index, !.offset = at_.offset]]
             ELSE [result |-> "Some", frame |-> at(at_.index).start + at_.offset,
                   state |-> [state EXCEPT !.index = at_.index,
                                           !.offset = at_.offset + 1]]

\* The freeze of a build without debug assertions: nothing.
freeze_release(state) == state

\* EarlyPMM::freeze (a build with debug assertions).
freeze(state) == [state EXCEPT !.is_frozen = TRUE]

\* An is_used that compares the entry only, not the offset within it.
is_used_by_entry(state, index, offset) == index < state.index

\* EarlyPMM::is_used.
is_used(state, index, offset) ==
    index < state.index \/ (index = state.index /\ offset < state.offset)

(***************************************************************************)
(* Page tables (src/src/arch/x86_64/paging.rs): which tables exist.        *)
(***************************************************************************)
PAGE_SIZE_ENTRIES == 512

\* The tables walk_entry passes on the way to the page table of `virt`:
\* the PDPT, the PD and the PT, each named by the range of pages it spans.
walk(virt) ==
    {<<"pdpt", virt \div (PAGE_SIZE_ENTRIES * PAGE_SIZE_ENTRIES * PAGE_SIZE_ENTRIES)>>,
     <<"pd", virt \div (PAGE_SIZE_ENTRIES * PAGE_SIZE_ENTRIES)>>,
     <<"pt", virt \div PAGE_SIZE_ENTRIES>>}

\* The calls of walk_entry in map_page_small with the bootstrap allocator: one frame
\* for each of the n tables that are not present.
RECURSIVE early_walk(_, _, _)
early_walk(state, n, handed) ==
    IF n = 0 THEN [result |-> "Some", state |-> state, handed |-> handed]
    ELSE LET a == early_allocate_single_page(state)
         IN  IF a.result = "panic"
             THEN [result |-> "panic", state |-> a.state, handed |-> handed]
             ELSE early_walk(a.state, n - 1, handed \cup {a.frame})

(***************************************************************************)
(* The page-descriptor table and init_pdt (src/src/mem/pmm.rs).            *)
(***************************************************************************)
\* The page the descriptor array starts at (`start` of init_pdt): the last page of a
\* page table.
PdtStart == PAGE_SIZE_ENTRIES - 1

Free(next) == [state |-> "Free", next |-> next]

Used == [state |-> "Used", next |-> {}]

\* The frames of the map in the order the two passes of init_pdt visit them.
RECURSIVE map_frames(_, _)
map_frames(index, offset) ==
    IF index >= Len(memory_map) THEN <<>>
    ELSE IF offset >= at(index).size THEN map_frames(index + 1, 0)
    ELSE <<[index |-> index, offset |-> offset, frame |-> at(index).start + offset]>>
             \o map_frames(index, offset + 1)

\* The page that would hold the descriptor of `frame` if a descriptor were one byte.
page_map_requested_bytes(frame) == frame \div PAGE_SMALL_SIZE

\* The page of the descriptor array, counted from its base, that holds the
\* descriptor of `frame`.
page_map_requested(frame) == (PAGE_INFO_SIZE * frame) \div PAGE_SMALL_SIZE

\* Pass 1 of init_pdt from visit k on: maps every page of the descriptor array that
\* differs from the previous one to a frame of the bootstrap allocator.
RECURSIVE pass1(_, _, _, _)
pass1(visits, k, prev, st) ==
    IF k > Len(visits) THEN st
    ELSE LET page == page_map_requested(visits[k].frame)
         IN  IF prev = {page}
             THEN pass1(visits, k + 1, prev, st)
             ELSE LET a == early_allocate_single_page(st.state)
                      missing == walk(PdtStart + page) \ st.tables
                      w == early_walk(a.state, Cardinality(missing), st.handed \cup {a.frame})
                  IN  IF a.result = "panic"
                      THEN [st EXCEPT !.result = "panic", !.state = a.state]
                      ELSE IF w.result = "panic"
                      THEN [st EXCEPT !.result = "panic", !.state = w.state,
                                      !.handed = w.handed]
                      ELSE pass1(visits, k + 1, {page},
                                 [st EXCEPT !.state = w.state, !.handed = w.handed,
                                            !.tables = @ \cup missing,
                                            !.mapped = @ \cup {<<page, a.frame>>}])

\* A pass 2 that links every free descriptor to its own frame.
descriptor_self(state, index, offset, next_free) ==
    IF at(index).entry_type = "Usable" /\ ~is_used(state, index, offset)
    THEN Free({at(index).start + offset})
    ELSE Used

\* The descriptor pass 2 writes for a frame of entry `index` at `offset`.
descriptor(state, index, offset, next_free) ==
    IF at(index).entry_type = "Usable" /\ ~is_used(state, index, offset)
    THEN Free(next_free)
    ELSE Used

\* Pass 2 of init_pdt from visit k on: the table and the head of the free list.
RECURSIVE pass2(_, _, _, _, _)
pass2(visits, k, state, table, next_free) ==
    IF k > Len(visits) THEN [pdt |-> table, next_free |-> next_free]
    ELSE LET v == visits[k]
             d == descriptor(state, v.index, v.offset, next_free)
         IN  pass2(visits, k + 1, state, [table EXCEPT ![v.frame] = d],
                   IF d.state = "Free" THEN {v.frame} ELSE next_free)

Uninit == [state |-> "Uninit", next |-> {}]

NoCores == [c \in 1..NumCores |-> "idle"]

PmmInit ==
    /\ memory_map \in MemoryMaps
    /\ phase = "boot"
    /\ early_pmm = [index |-> 0, offset |-> 0, is_frozen |-> FALSE]
    /\ early_handed = {}
    /\ pdt = <<>>
    /\ pdt_len = 0
    /\ pdt_mapped = {}
    /\ free_list = {}
    /\ pmm_lock = {}
    /\ pc = NoCores
    /\ head = [c \in 1..NumCores |-> {}]
    /\ allocated = <<>>
    /\ tables = {}

\* PageTableSet::new with the bootstrap allocator: one frame for the root table. It is
\* the first allocation init makes.
PageTableSet_new ==
    /\ phase = "boot"
    /\ early_handed = {}
    /\ LET a == early_allocate_single_page(early_pmm)
       IN  /\ early_pmm' = a.state
           /\ phase' = IF a.result = "panic" THEN "halted" ELSE phase
           /\ early_handed' = IF a.result = "panic" THEN early_handed
                              ELSE early_handed \cup {a.frame}
           /\ pt_roots' = IF a.result = "panic" THEN pt_roots
                          ELSE <<[index \in 0..(PAGE_SIZE_ENTRIES - 1) |-> 0]>>
           /\ pt_origin' = IF a.result = "panic" THEN pt_origin ELSE <<{}>>
    /\ UNCHANGED <<memory_map, pdt, pdt_len, pdt_mapped, free_list, pmm_lock, pc, head,
                   allocated, tables>>
    /\ UNCHANGED <<vpaVars, heapVars, mapVars, lockVars, pt_subs, bootstrap_pt, local_pt, backedVars, restVars>>

\* One call of EarlyPMM::allocate_single_page, made after the root table exists; a
\* call made after init_pdt finds the allocator frozen.
early_allocate_call ==
    /\ phase \in {"boot", "ready"}
    /\ early_handed # {}
    /\ LET a == early_allocate_single_page(early_pmm)
       IN  /\ early_pmm' = a.state
           /\ phase' = IF a.result = "panic" THEN "halted" ELSE phase
           /\ early_handed' = IF a.result = "panic" THEN early_handed
                              ELSE early_handed \cup {a.frame}
    /\ UNCHANGED <<memory_map, pdt, pdt_len, pdt_mapped, free_list, pmm_lock, pc, head,
                   allocated, tables>>
    /\ UNCHANGED <<vpaVars, heapVars, pagingVars>>

\* A mapping of transition_paging that creates the tables on the walk to `virt`.
transition_paging(virt) ==
    /\ phase = "boot"
    /\ early_handed # {}
    /\ LET missing == walk(virt) \ tables
           w == early_walk(early_pmm, Cardinality(missing), early_handed)
       IN  /\ missing # {}
           /\ early_pmm' = w.state
           /\ early_handed' = w.handed
           /\ phase' = IF w.result = "panic" THEN "halted" ELSE phase
           /\ tables' = IF w.result = "panic" THEN tables ELSE tables \cup missing
    /\ UNCHANGED <<memory_map, pdt, pdt_len, pdt_mapped, free_list, pmm_lock, pc, head,
                   allocated>>
    /\ UNCHANGED <<vpaVars, heapVars, pagingVars>>

\* init_pdt: pass 1, freeze, PDT.call_once, pass 2, and the store of the head.
init_pdt ==
    /\ phase = "boot"
    /\ early_handed # {}
    /\ LET visits == map_frames(0, 0)
           len == hhdm_size(memory_map)
           p1 == pass1(visits, 1, {},
                       [result |-> "Ok", state |-> early_pmm, handed |-> early_handed,
                        tables |-> tables, mapped |-> {}])
       IN  /\ early_handed' = p1.handed
           /\ pdt_mapped' = p1.mapped
           /\ tables' = p1.tables
           /\ IF p1.result = "panic"
              THEN /\ phase' = "halted"
                   /\ early_pmm' = p1.state
                   /\ UNCHANGED <<pdt, pdt_len, free_list, allocated>>
              ELSE LET frozen == freeze(p1.state)
                       p2 == pass2(visits, 1, frozen, [f \in 0..(len - 1) |-> Uninit], {})
                   IN  /\ phase' = "ready"
                       /\ early_pmm' = frozen
                       /\ pdt' = p2.pdt
                       /\ pdt_len' = len
                       /\ free_list' = p2.next_free
                       /\ allocated' = [f \in 0..(len - 1) |-> 0]
    /\ UNCHANGED <<memory_map, pmm_lock, pc, head>>
    /\ UNCHANGED <<vpaVars, heapVars, pagingVars>>

(***************************************************************************)
(* PMM::allocate_single_page on a core, step by step: lock, the copy of    *)
(* the head that inspect() is called on, the closure of inspect(), unlock. *)
(***************************************************************************)
\* A lock that is handed out without the compare-exchange.
lock_unchecked(lock) == TRUE

\* spin::Mutex::lock returns only when the compare-exchange finds the mutex free.
lock_free(lock) == lock = {}

allocate_lock(c) ==
    /\ phase = "ready"
    /\ pc[c] = "idle"
    /\ lock_free(pmm_lock)
    /\ pmm_lock' = {c}
    /\ pc' = [pc EXCEPT ![c] = "locked"]
    /\ UNCHANGED <<memory_map, phase, early_pmm, early_handed, pdt, pdt_len, pdt_mapped,
                   free_list, head, allocated, tables>>
    /\ UNCHANGED <<vpaVars, heapVars, pagingVars>>

allocate_read(c) ==
    /\ pc[c] = "locked"
    /\ head' = [head EXCEPT ![c] = free_list]
    /\ pc' = [pc EXCEPT ![c] = "read"]
    /\ UNCHANGED <<memory_map, phase, early_pmm, early_handed, pdt, pdt_len, pdt_mapped,
                   free_list, pmm_lock, allocated, tables>>
    /\ UNCHANGED <<vpaVars, heapVars, pagingVars>>

\* The head the closure of inspect() stores for the popped descriptor.
popped_next(info) == info.next

allocate_inspect(c) ==
    /\ pc[c] = "read"
    /\ IF head[c] = {}
       THEN /\ pc' = [pc EXCEPT ![c] = "unlock"]
            /\ UNCHANGED free_list
       ELSE LET free_page == pdt[CHOOSE f \in head[c] : TRUE]
            IN  IF free_page.state = "Free"
                THEN /\ free_list' = popped_next(free_page)
                     /\ pc' = [pc EXCEPT ![c] = "unlock"]
                ELSE /\ pc' = [pc EXCEPT ![c] = "panicked"]
                     /\ UNCHANGED free_list
    /\ UNCHANGED <<memory_map, phase, early_pmm, early_handed, pdt, pdt_len, pdt_mapped,
                   pmm_lock, head, allocated, tables>>
    /\ UNCHANGED <<vpaVars, heapVars, pagingVars>>

\* An expect() that returns to the caller on None as it does on Some.
expect_unchecked(option) == "idle"

\* Option::expect("out of memory") in PMM::allocate_single_page: a panic on None.
expect(option) == IF option = {} THEN "panicked" ELSE "idle"

\* The guard is dropped and allocate_single_page returns the frame, or panics with
\* "out of memory" on None.
allocate_return(c) ==
    /\ pc[c] = "unlock"
    /\ pmm_lock' = pmm_lock \ {c}
    /\ pc' = [pc EXCEPT ![c] = expect(head[c])]
    /\ allocated' = [f \in DOMAIN allocated |->
                         IF f \in head[c] THEN allocated[f] + 1 ELSE allocated[f]]
    /\ head' = [head EXCEPT ![c] = {}]
    /\ UNCHANGED <<memory_map, phase, early_pmm, early_handed, pdt, pdt_len, pdt_mapped,
                   free_list, tables>>
    /\ UNCHANGED <<vpaVars, heapVars, pagingVars>>

(***************************************************************************)
(* The heap: init_malloc and BumpHeap::handle_oom (src/src/mem/malloc.rs). *)
(***************************************************************************)
\* First pages of the heap's range: in the page table of the descriptor array, the
\* last page of a page table, and the last page of a page directory.
HeapStarts == {PdtStart + 2, 2 * PAGE_SIZE_ENTRIES - 1,
               PAGE_SIZE_ENTRIES * PAGE_SIZE_ENTRIES - 1}

\* Sizes in bytes of the layouts handle_oom is called for.
OomLayouts == {1, PAGE_SMALL_SIZE, PAGE_SMALL_SIZE + 1}

\* PMM::allocate_single_page as one step, for a caller that runs alone: the frame, the
\* new head, or a panic.
pop(list, table) ==
    IF list = {} THEN [result |-> "panic", frame |-> 0, list |-> list]
    ELSE LET f == CHOOSE x \in list : TRUE
         IN  IF table[f].state = "Free"
             THEN [result |-> "Some", frame |-> f, list |-> popped_next(table[f])]
             ELSE [result |-> "panic", frame |-> f, list |-> list]

\* The calls of walk_entry in map_page_small with the permanent allocator: one frame
\* popped for each of the n tables that are not present.
RECURSIVE pop_tables(_, _, _)
pop_tables(list, n, taken) ==
    IF n = 0 THEN [result |-> "Some", list |-> list, taken |-> taken]
    ELSE LET a == pop(list, pdt)
         IN  IF a.result = "panic"
             THEN [result |-> "panic", list |-> list, taken |-> taken]
             ELSE pop_tables(a.list, n - 1, Append(taken, a.frame))

\* The loop of handle_oom: n more pages to back, from state st.
RECURSIVE oom_loop(_, _)
oom_loop(st, n) ==
    IF n = 0 THEN st
    ELSE LET a == pop(st.list, pdt)
         IN  IF a.result = "panic" THEN [st EXCEPT !.result = "panic"]
             ELSE LET missing == walk(st.limit) \ st.tables
                      t == pop_tables(a.list, Cardinality(missing), Append(st.taken, a.frame))
                  IN  IF t.result = "panic"
                      THEN [st EXCEPT !.result = "panic", !.list = t.list,
                                      !.taken = t.taken]
                      ELSE oom_loop([st EXCEPT !.list = t.list,
                                               !.tables = @ \cup missing,
                                               !.mapped = @ \cup {<<st.limit, a.frame>>},
                                               !.taken = t.taken,
                                               !.limit = @ + 1],
                                    n - 1)

\* The bound check at the head of handle_oom.
oom_exceeds(this, sz) == this.range.start + sz > this.range.end

\* BumpHeap::handle_oom for a layout of `bytes` bytes.
handle_oom_result(this, bytes) ==
    LET sz == page_size_roundup(bytes)
        st == [result |-> "Ok", list |-> free_list, tables |-> tables,
               mapped |-> heap_mapped, taken |-> <<>>, limit |-> this.limit]
    IN  IF oom_exceeds(this, sz) THEN [st EXCEPT !.result = "Err"] ELSE oom_loop(st, sz)

HeapInit ==
    /\ heap = {}
    /\ heap_mapped = {}
    /\ heap_last = [pages |-> 0, before |-> 0, result |-> "-"]

\* init_malloc(heap_range, addr).
init_malloc(heap_range) ==
    /\ phase = "ready"
    /\ heap = {}
    /\ heap' = {[range |-> heap_range, limit |-> heap_range.start]}
    /\ UNCHANGED <<heap_mapped, heap_last, pmmVars, vpaVars, pagingVars>>

handle_oom(bytes) ==
    /\ heap # {}
    /\ heap_last.result # "panic"
    /\ LET this == CHOOSE h \in heap : TRUE
           r == handle_oom_result(this, bytes)
       IN  /\ heap' = {[this EXCEPT !.limit = r.limit]}
           /\ tables' = r.tables
           /\ heap_mapped' = r.mapped
           /\ free_list' = r.list
           /\ allocated' = [f \in DOMAIN allocated |->
                               allocated[f] + Cardinality({k \in 1..Len(r.taken) :
                                                              r.taken[k] = f})]
           /\ heap_last' = [pages |-> page_size_roundup(bytes), before |-> this.limit,
                            result |-> r.result]
    /\ UNCHANGED <<memory_map, phase, early_pmm, early_handed, pdt, pdt_len, pdt_mapped,
                   pmm_lock, pc, head>>
    /\ UNCHANGED <<vpaVars, pagingVars>>

\* Pages that transition_paging maps: they share tables with the descriptor array
\* or with a heap.
BootMapped == {0, 2 * PAGE_SIZE_ENTRIES}

(***************************************************************************)
(* Page sizes and addresses (src/src/arch/x86_64/mod.rs, types.rs).        *)
(* Addresses are byte addresses below 2^31; the higher half of this        *)
(* address space begins at 2^30, the base of its second large page.        *)
(***************************************************************************)
SMALL_PAGE_PAGE_SIZE == 1

MEDIUM_PAGE_PAGE_SIZE == 512

LARGE_PAGE_PAGE_SIZE == 512 * 512

\* PageSize::size_bytes
size_bytes(page_size) == page_size * PAGE_SMALL_SIZE

\* PageFrameNumber::address and VirtualPageFrameNumber::address
address(frame) == frame * PAGE_SMALL_SIZE

\* is_aligned of a frame number: the test is made on its byte address.
is_aligned(frame, page_size) == address(frame) % size_bytes(page_size) = 0

\* The first frame number whose address cannot be computed in the model.
AddressLimit == 2 * LARGE_PAGE_PAGE_SIZE

get_higher_half_addr == address(LARGE_PAGE_PAGE_SIZE)

\* VirtualPageFrameNumber::is_higher_half
is_higher_half(virt) == address(virt) > get_higher_half_addr

(***************************************************************************)
(* PageTableSet::map_range (src/src/arch/x86_64/paging.rs).                *)
(***************************************************************************)
\* A call of map_page_small, map_page_medium or map_page_large: what it maps, whether
\* its alignment assertions hold, and whether do_action takes the global lock.
map_page(kind, page_size, virt, phys) ==
    [kind |-> kind, virt |-> virt, phys |-> phys, pages |-> page_size,
     asserted |-> is_aligned(virt, page_size) /\ is_aligned(phys, page_size),
     needs_lock |-> is_higher_half(virt)]

map_page_small(virt, phys) == map_page("small", SMALL_PAGE_PAGE_SIZE, virt, phys)

map_page_medium(virt, phys) == map_page("medium", MEDIUM_PAGE_PAGE_SIZE, virt, phys)

map_page_large(virt, phys) == map_page("large", LARGE_PAGE_PAGE_SIZE, virt, phys)

\* The tables walk_entry passes in a map_page_* call: map_page_large writes an entry
\* of the PDPT, map_page_medium of the PD, map_page_small of the PT.
walk_to(call) ==
    IF call.kind = "large" THEN {t \in walk(call.virt) : t[1] = "pdpt"}
    ELSE IF call.kind = "medium" THEN {t \in walk(call.virt) : t[1] \in {"pdpt", "pd"}}
    ELSE walk(call.virt)

\* A first loop that stops as soon as the virtual cursor is medium-aligned.
head_small_runs_virtual(base, phys, end) ==
    /\ base < end
    /\ ~is_aligned(base, MEDIUM_PAGE_PAGE_SIZE)

\* The conditions of the five while loops of map_range, in the order of the source.
head_small_runs(base, phys, end) ==
    /\ base < end
    /\ ~(is_aligned(base, MEDIUM_PAGE_PAGE_SIZE) /\ is_aligned(phys, MEDIUM_PAGE_PAGE_SIZE))

\* A second loop that runs while a medium page fits.
head_medium_runs_while_fits(base, phys, end) == base + MEDIUM_PAGE_PAGE_SIZE <= end

head_medium_runs(base, phys, end) ==
    /\ base + MEDIUM_PAGE_PAGE_SIZE <= end
    /\ ~(is_aligned(base, LARGE_PAGE_PAGE_SIZE) /\ is_aligned(phys, LARGE_PAGE_PAGE_SIZE))

\* A third loop that runs whenever some page is left to map.
body_large_runs_to_end(base, phys, end) == base < end

body_large_runs(base, phys, end) == base + LARGE_PAGE_PAGE_SIZE <= end

tail_medium_runs(base, phys, end) == base + MEDIUM_PAGE_PAGE_SIZE <= end

tail_small_runs(base, phys, end) == base < end

\* The condition of loop `loop` with the cursors at base and phys.
loop_runs(loop, base, phys, end) ==
    IF loop = 1 THEN head_small_runs(base, phys, end)
    ELSE IF loop = 2 THEN head_medium_runs(base, phys, end)
    ELSE IF loop = 3 THEN body_large_runs(base, phys, end)
    ELSE IF loop = 4 THEN tail_medium_runs(base, phys, end)
    ELSE tail_small_runs(base, phys, end)

\* The page size loop `loop` maps and advances both cursors by.
loop_page_size(loop) ==
    IF loop \in {1, 5} THEN SMALL_PAGE_PAGE_SIZE
    ELSE IF loop \in {2, 4} THEN MEDIUM_PAGE_PAGE_SIZE
    ELSE LARGE_PAGE_PAGE_SIZE

\* The number of times the body of a loop runs: the first iteration at which its
\* condition is false.
iterations(loop, base, phys, end) ==
    LET step == loop_page_size(loop)
        left == IF base < end THEN end - base ELSE 0
    IN  CHOOSE n \in 0..(left \div step + 1) :
            /\ ~loop_runs(loop, base + n * step, phys + n * step, end)
            /\ \A m \in 0..(n - 1) : loop_runs(loop, base + m * step, phys + m * step, end)

\* The calls the body of a loop makes in n iterations.
loop_calls(loop, base, phys, n) ==
    LET step == loop_page_size(loop)
    IN  [i \in 1..n |->
            IF step = SMALL_PAGE_PAGE_SIZE
            THEN map_page_small(base + (i - 1) * step, phys + (i - 1) * step)
            ELSE IF step = MEDIUM_PAGE_PAGE_SIZE
            THEN map_page_medium(base + (i - 1) * step, phys + (i - 1) * step)
            ELSE map_page_large(base + (i - 1) * step, phys + (i - 1) * step)]

\* map_range from loop `loop` on, with the cursors at base and phys.
RECURSIVE map_range_from(_, _, _, _)
map_range_from(loop, base, phys, end) ==
    IF loop > 5 THEN <<>>
    ELSE LET n == iterations(loop, base, phys, end)
             step == loop_page_size(loop)
         IN  loop_calls(loop, base, phys, n)
                 \o map_range_from(loop + 1, base + n * step, phys + n * step, end)

\* The calls map_range(base, phys, size) makes, in order.
map_range_calls(base, phys, sz) == map_range_from(1, base, phys, base + sz)

\* Arguments of map_range: a range lying around a large-page boundary, with up to
\* MaxSmall small pages and MaxMedium medium pages on each side of it, mapped to frames
\* that share its alignment, share it up to a medium page, or do not share it.
MapArgs ==
    LET shapes == [origin : {0, LARGE_PAGE_PAGE_SIZE}, s1 : 0..MaxSmall, m1 : 0..MaxMedium,
                   large : 0..1, m2 : 0..MaxMedium, s2 : 0..MaxSmall,
                   delta : {0, LARGE_PAGE_PAGE_SIZE, 0 - LARGE_PAGE_PAGE_SIZE,
                            MEDIUM_PAGE_PAGE_SIZE, 0 - MEDIUM_PAGE_PAGE_SIZE, 1, 0 - 1}]
        args == {[base |-> sh.origin - sh.m1 * MEDIUM_PAGE_PAGE_SIZE - sh.s1,
                  delta |-> sh.delta,
                  size |-> sh.s1 + (sh.m1 + sh.m2) * MEDIUM_PAGE_PAGE_SIZE
                               + sh.large * LARGE_PAGE_PAGE_SIZE + sh.s2,
                  calls |-> IF sh.delta % MEDIUM_PAGE_PAGE_SIZE # 0
                            THEN sh.s1 + (sh.m1 + sh.m2) * MEDIUM_PAGE_PAGE_SIZE
                                     + sh.large * LARGE_PAGE_PAGE_SIZE + sh.s2
                            ELSE 0] : sh \in shapes}
    IN  {[base |-> a.base, phys |-> a.base + a.delta, size |-> a.size] :
            a \in {x \in args : /\ x.base >= 0
                                /\ x.base + x.delta >= 0
                                /\ x.base + x.size <= AddressLimit
                                /\ x.base + x.delta + x.size <= AddressLimit
                                /\ x.calls <= 2 * MEDIUM_PAGE_PAGE_SIZE + 2 * MaxSmall}}

\* The tables the calls do not find present.
missing_tables(calls, present) ==
    UNION {walk_to(calls[k]) : k \in 1..Len(calls)} \ present

\* Every alignment assertion of the calls holds.
all_asserted(calls) == \A k \in 1..Len(calls) : calls[k].asserted

PagingInit ==
    /\ mr_args = {}
    /\ mr_calls = <<>>

\* map_range during boot, as transition_paging calls it: the tables its calls do not
\* find are taken from the bootstrap allocator.
map_range(base, phys, sz) ==
    /\ phase = "boot"
    /\ early_handed # {}
    /\ mr_args = {}
    /\ LET calls == map_range_calls(base, phys, sz)
           missing == missing_tables(calls, tables)
           w == early_walk(early_pmm, Cardinality(missing), early_handed)
           ok == w.result # "panic" /\ all_asserted(calls)
       IN  /\ early_pmm' = w.state
           /\ early_handed' = w.handed
           /\ phase' = IF ok THEN phase ELSE "halted"
           /\ tables' = IF ok THEN tables \cup missing ELSE tables
           /\ mr_args' = IF ok THEN {[base |-> base, phys |-> phys, size |-> sz]} ELSE {}
           /\ mr_calls' = IF ok THEN calls ELSE <<>>
    /\ UNCHANGED <<memory_map, pdt, pdt_len, pdt_mapped, free_list, pmm_lock, pc, head,
                   allocated>>
    /\ UNCHANGED <<vpaVars, heapVars, lockVars, setVars, backedVars, restVars>>


(***************************************************************************)
(* IntMutex (src/src/sync.rs) and do_action (paging.rs).  IrqState and     *)
(* irq_disable are imported from crate::arch: IrqState::save reads the     *)
(* interrupt-enable flag of the core, restore writes the saved value back, *)
(* irq_disable clears the flag.                                            *)
(***************************************************************************)
Cores == 1..NumCores

\* The IntMutexes of the kernel: the heap (ALLOC) and KERNEL_GLOBAL_PAGE_LOCK.
Mutexes == {"heap", "page"}

IrqState_save(flags, c) == flags[c]

IrqState_restore(flags, c, state) == [flags EXCEPT ![c] = state]

irq_disable(flags, c) == [flags EXCEPT ![c] = FALSE]

Idle == [pc |-> "idle", mutex |-> "-", state |-> FALSE, before |-> FALSE]

\* The IntMutexes core c holds a guard of.
held(c) == {guards[c][k].mutex : k \in 1..Len(guards[c])}

LockInit ==
    /\ int_lock = [m \in Mutexes |-> FALSE]
    /\ guards = [c \in Cores |-> <<>>]
    /\ lk = [c \in Cores |-> Idle]
    /\ mapping = [c \in Cores |-> {}]
    /\ dropped = {}

\* The kernel is entered with the interrupt-enable flag clear.
NoInterrupts == irq = [c \in Cores |-> FALSE]

\* The head of lock(): MP_STATE is never MPPreempt, and IrqState::save().
lock_save(c, m) ==
    /\ lk' = [lk EXCEPT ![c] = [pc |-> "disable", mutex |-> m,
                                state |-> IrqState_save(irq, c), before |-> irq[c]]]

\* IntMutex::lock called by code that is not do_action.
lock(c, m) ==
    /\ lk[c].pc = "idle"
    /\ lock_save(c, m)
    /\ UNCHANGED <<irq, int_lock, guards, mapping, dropped>>
    /\ UNCHANGED <<vpaVars, pmmVars, heapVars, mapVars, setVars, backedVars, restVars>>

\* irq_disable() at the head of the loop.
lock_irq_disable(c) ==
    /\ lk[c].pc = "disable"
    /\ irq' = irq_disable(irq, c)
    /\ lk' = [lk EXCEPT ![c].pc = "swap"]
    /\ UNCHANGED <<int_lock, guards, mapping, dropped>>
    /\ UNCHANGED <<vpaVars, pmmVars, heapVars, mapVars, setVars, backedVars, restVars>>

\* A swap that lets the loop end whatever the flag was.
swap_breaks_always(old) == TRUE

\* if !self.lock.swap(true, Acquire) { break; }
swap_breaks(old) == ~old

\* A guard that restores to interrupts disabled.
IntMutexGuard_disabled(m, state, before) ==
    [mutex |-> m, irq_state |-> FALSE, before |-> before]

\* The guard lock() returns; `before` records the flag at the call of lock().
IntMutexGuard(m, state, before) == [mutex |-> m, irq_state |-> state, before |-> before]

\* The swap: the loop ends and lock() returns its guard, or the loop goes on.
lock_swap(c) ==
    /\ lk[c].pc = "swap"
    /\ int_lock' = [int_lock EXCEPT ![lk[c].mutex] = TRUE]
    /\ IF swap_breaks(int_lock[lk[c].mutex])
       THEN /\ guards' = [guards EXCEPT
                  ![c] = Append(@, IntMutexGuard(lk[c].mutex, lk[c].state, lk[c].before))]
            /\ lk' = [lk EXCEPT ![c] = IF mapping[c] = {} THEN Idle
                                       ELSE [Idle EXCEPT !.pc = "action"]]
       ELSE /\ lk' = [lk EXCEPT ![c].pc = "restore"]
            /\ UNCHANGED guards
    /\ UNCHANGED <<irq, mapping, dropped>>
    /\ UNCHANGED <<vpaVars, pmmVars, heapVars, mapVars, setVars, backedVars, restVars>>

\* state.restore() after a swap that found the flag set.
lock_restore(c) ==
    /\ lk[c].pc = "restore"
    /\ irq' = IrqState_restore(irq, c, lk[c].state)
    /\ lk' = [lk EXCEPT ![c].pc = "spin"]
    /\ UNCHANGED <<int_lock, guards, mapping, dropped>>
    /\ UNCHANGED <<vpaVars, pmmVars, heapVars, mapVars, setVars, backedVars, restVars>>

\* The spin loop ends when a load finds the flag clear.
lock_spin(c) ==
    /\ lk[c].pc = "spin"
    /\ ~int_lock[lk[c].mutex]
    /\ lk' = [lk EXCEPT ![c].pc = "disable"]
    /\ UNCHANGED <<irq, int_lock, guards, mapping, dropped>>
    /\ UNCHANGED <<vpaVars, pmmVars, heapVars, mapVars, setVars, backedVars, restVars>>

\* The drop of the innermost guard: first the store of false to the flag.
drop_store(c) ==
    /\ lk[c].pc \in {"idle", "unlock"}
    /\ guards[c] # <<>>
    /\ LET guard == guards[c][Len(guards[c])]
       IN  /\ int_lock' = [int_lock EXCEPT ![guard.mutex] = FALSE]
           /\ guards' = [guards EXCEPT ![c] = SubSeq(@, 1, Len(@) - 1)]
           /\ lk' = [lk EXCEPT ![c] = [pc |-> "drop_restore", mutex |-> guard.mutex,
                                       state |-> guard.irq_state, before |-> guard.before]]
    /\ UNCHANGED <<irq, mapping, dropped>>
    /\ UNCHANGED <<vpaVars, pmmVars, heapVars, mapVars, setVars, backedVars, restVars>>

\* The drop of a guard: then self.irq_state.restore().
drop_restore(c) ==
    /\ lk[c].pc = "drop_restore"
    /\ irq' = IrqState_restore(irq, c, lk[c].state)
    /\ dropped' = {[core |-> c, before |-> lk[c].before, after |-> irq'[c]]}
    /\ lk' = [lk EXCEPT ![c] = Idle]
    /\ UNCHANGED <<int_lock, guards, mapping>>
    /\ UNCHANGED <<vpaVars, pmmVars, heapVars, mapVars, setVars, backedVars, restVars>>

\* The calls of map_page_* the cores make after boot: of the last page of the lower
\* half, of the page at the base of the higher half, and of the page after it.
MapCalls ==
    {map_page_small(virt, 0) :
        virt \in {LARGE_PAGE_PAGE_SIZE - 1, LARGE_PAGE_PAGE_SIZE, LARGE_PAGE_PAGE_SIZE + 1}}
        \cup {map_page_medium(LARGE_PAGE_PAGE_SIZE, 0), map_page_large(LARGE_PAGE_PAGE_SIZE, 0)}

\* map_page_small, map_page_medium or map_page_large up to do_action: the lock is
\* taken when needs_lock is true.
map_page_call(c, call) ==
    /\ phase = "ready"
    /\ lk[c].pc = "idle"
    /\ "page" \notin held(c)
    /\ call.asserted
    /\ mapping' = [mapping EXCEPT ![c] = {call}]
    /\ IF call.needs_lock
       THEN lock_save(c, "page")
       ELSE lk' = [lk EXCEPT ![c].pc = "action"]
    /\ UNCHANGED <<irq, int_lock, guards, dropped>>
    /\ UNCHANGED <<vpaVars, pmmVars, heapVars, mapVars, setVars, backedVars, restVars>>

\* The action of do_action: the walk, with a frame of the permanent allocator for each
\* table that is not present; the entry it then writes is not part of the state.
map_page_action(c) ==
    /\ lk[c].pc = "action"
    /\ lock_free(pmm_lock)
    /\ LET call == CHOOSE x \in mapping[c] : TRUE
           missing == walk_to(call) \ tables
           t == pop_tables(free_list, Cardinality(missing), <<>>)
       IN  /\ free_list' = t.list
           /\ allocated' = [f \in DOMAIN allocated |->
                               allocated[f] + Cardinality({k \in 1..Len(t.taken) :
                                                              t.taken[k] = f})]
           /\ IF t.result = "panic"
              THEN /\ phase' = "halted"
                   /\ UNCHANGED <<tables, mapping, lk>>
              ELSE /\ tables' = tables \cup missing
                   /\ mapping' = [mapping EXCEPT ![c] = {}]
                   /\ lk' = [lk EXCEPT ![c].pc = IF "page" \in held(c) THEN "unlock"
                                                 ELSE "idle"]
                   /\ UNCHANGED phase
    /\ UNCHANGED <<irq, int_lock, guards, dropped>>
    /\ UNCHANGED <<memory_map, early_pmm, early_handed, pdt, pdt_len, pdt_mapped, pmm_lock,
                   pc, head>>
    /\ UNCHANGED <<vpaVars, heapVars, mapVars, setVars, backedVars, restVars>>

(***************************************************************************)
(* Page-table sets (src/src/arch/x86_64/paging.rs) and the bring-up of the *)
(* cores (src/src/arch/x86_64/mp.rs).  A table below the root stands for   *)
(* all the tables under it; the frames of the tables are fresh frames of   *)
(* the allocator.                                                          *)
(***************************************************************************)
SetInit ==
    /\ pt_roots = <<>>
    /\ pt_subs = <<>>
    /\ pt_origin = <<>>
    /\ bootstrap_pt = {}
    /\ local_pt = [c \in Cores |-> {}]

\* Root indices of the mappings made: the last of the lower half and the first of the
\* upper half.
RootIndices == {PAGE_SIZE_ENTRIES \div 2 - 1, PAGE_SIZE_ENTRIES \div 2}

\* Pages mapped below a root entry, counted from the first page it spans.
PagesBelow == {0, 1}

\* for idx in 256..512
kernel_root_entries == (PAGE_SIZE_ENTRIES \div 2)..(PAGE_SIZE_ENTRIES - 1)

\* The root entries `indices` of `root` that are not present.
absent(root, indices) == {i \in indices : root[i] = 0}

\* walk_entry over the root entries of `root`, in order: each of the entries `missing`
\* gets a new table. `n` tables exist before.
walk_root(root, missing, n) ==
    [i \in DOMAIN root |->
        IF i \in missing THEN n + Cardinality({j \in missing : j < i}) + 1 ELSE root[i]]

\* The table sets after walk_entry over the root entries `indices` of table set ts.
walked(ts, indices) ==
    [roots |-> [pt_roots EXCEPT ![ts] = walk_root(@, absent(@, indices), Len(pt_subs))],
     subs |-> pt_subs \o [k \in 1..Cardinality(absent(pt_roots[ts], indices)) |-> {}]]

\* The table sets after a page is mapped below root entry `index` of table set ts.
mapped_below(w, ts, index, page) ==
    [roots |-> w.roots, subs |-> [w.subs EXCEPT ![w.roots[ts][index]] = @ \cup {page}]]

\* A map_page_* call through table set ts, of a page below root entry index.
map_below(ts, index, page) ==
    /\ LET w == mapped_below(walked(ts, {index}), ts, index, page)
       IN  /\ pt_roots' = w.roots
           /\ pt_subs' = w.subs
    /\ UNCHANGED <<pt_origin, bootstrap_pt, local_pt>>
    /\ UNCHANGED <<vpaVars, pmmVars, heapVars, mapVars, lockVars, backedVars, restVars>>

\* map_kernel_pages of transition_paging, on the table set it made.
map_kernel_pages ==
    /\ pt_roots # <<>>
    /\ bootstrap_pt = {}
    /\ LET w == walked(1, kernel_root_entries)
       IN  /\ pt_roots' = w.roots
           /\ pt_subs' = w.subs
    /\ UNCHANGED <<pt_origin, bootstrap_pt, local_pt>>
    /\ UNCHANGED <<vpaVars, pmmVars, heapVars, mapVars, lockVars, backedVars, restVars>>

\* initialize_mp up to the start of the cores: map_kernel_pages and BOOTSTRAP_PT.
initialize_mp ==
    /\ pt_roots # <<>>
    /\ bootstrap_pt = {}
    /\ LET w == walked(1, kernel_root_entries)
       IN  /\ pt_roots' = w.roots
           /\ pt_subs' = w.subs
    /\ bootstrap_pt' = {1}
    /\ UNCHANGED <<pt_origin, local_pt>>
    /\ UNCHANGED <<vpaVars, pmmVars, heapVars, mapVars, lockVars, backedVars, restVars>>

\* A copy of the upper half of the root table only.
copy_upper(root) == [i \in DOMAIN root |-> IF i \in kernel_root_entries THEN root[i] ELSE 0]

\* ptr::copy_nonoverlapping of the root table page.
copy_nonoverlapping(root) == root

\* initialize_core up to LOCAL_PAGE_TABLE: core 1 is CoreId(0) and inherits the
\* bootstrap table set, every other core duplicates it.
initialize_core(c) ==
    /\ bootstrap_pt # {}
    /\ local_pt[c] = {}
    /\ LET early_pt == CHOOSE ts \in bootstrap_pt : TRUE
       IN  IF c # 1
           THEN /\ pt_roots' = Append(pt_roots, copy_nonoverlapping(pt_roots[early_pt]))
                /\ pt_origin' = Append(pt_origin, {[set |-> early_pt,
                                                    entries |-> pt_roots[early_pt]]})
                /\ local_pt' = [local_pt EXCEPT ![c] = {Len(pt_roots) + 1}]
           ELSE /\ local_pt' = [local_pt EXCEPT ![c] = {early_pt}]
                /\ UNCHANGED <<pt_roots, pt_origin>>
    /\ UNCHANGED <<pt_subs, bootstrap_pt>>
    /\ UNCHANGED <<vpaVars, pmmVars, heapVars, mapVars, lockVars, backedVars, restVars>>

(***************************************************************************)
(* Backed allocations (src/src/mem/vpa.rs).                                *)
(***************************************************************************)
BackedInit ==
    /\ backed = {}
    /\ backed_last = [frames |-> 0, mapped |-> {}]

\* VirtualAllocator::allocate_backed_padded(pmm, tables, size, padding, flags) with the
\* permanent physical allocator; allocate_backed(size) is the call with padding 0.
allocate_backed_padded(sz, padding) ==
    /\ vpa_kind \in {"early", "tree"}
    /\ ~vpa_halted
    /\ phase = "ready"
    /\ lock_free(pmm_lock)
    /\ vpa_calls < MaxCalls
    /\ vpa_calls' = vpa_calls + 1
    /\ LET alloc_size == padding + sz + padding
           r == handler_allocate(alloc_size)
           range == [range |-> sized(r.base, alloc_size),
                     usable |-> sized(r.base + padding, sz)]
           st == [result |-> "Ok", list |-> free_list, tables |-> tables, mapped |-> {},
                  taken |-> <<>>, limit |-> r.base]
           m == IF r.result = "Some" THEN oom_loop(st, alloc_size) ELSE st
           result == IF m.result = "panic" THEN "panic" ELSE r.result
       IN  /\ free_ranges' = r.free
           /\ by_base' = r.tree.by_base
           /\ by_size' = r.tree.by_size
           /\ handles' = IF result = "Some" THEN handles \cup {range} ELSE handles
           /\ backed' = IF result = "Some" THEN backed \cup {range} ELSE backed
           /\ vpa_halted' = (result = "panic")
           /\ vpa_last' = Call("allocate_backed", NoRange, sz, padding, result, r.base)
           /\ free_list' = m.list
           /\ tables' = m.tables
           /\ allocated' = [f \in DOMAIN allocated |->
                               allocated[f] + Cardinality({k \in 1..Len(m.taken) :
                                                              m.taken[k] = f})]
           /\ backed_last' = [frames |-> Len(m.taken), mapped |-> m.mapped]
    /\ UNCHANGED <<vpa_kind, vm_range, leaked>>
    /\ UNCHANGED <<memory_map, phase, early_pmm, early_handed, pdt, pdt_len, pdt_mapped,
                   pmm_lock, pc, head>>
    /\ UNCHANGED <<heapVars, mapVars, lockVars, setVars, restVars>>

\* Drop of a BackedVirtualAllocation that was not leaked: todo!().
drop_backed(h) ==
    /\ h \in handles \cap backed
    /\ ~vpa_halted
    /\ vpa_calls < MaxCalls
    /\ vpa_calls' = vpa_calls + 1
    /\ vpa_halted' = TRUE
    /\ vpa_last' = Call("drop", h.range, 0, 0, "panic", 0)
    /\ UNCHANGED <<vpa_kind, vm_range, free_ranges, by_base, by_size, handles, leaked>>
    /\ UNCHANGED <<pmmVars, heapVars, pagingVars>>

(***************************************************************************)
(* Sizes in bytes and in pages (src/src/mem/types.rs).                     *)
(***************************************************************************)
RoundInit ==
    /\ round_arg = [bytes |-> 0, overflow_checks |-> FALSE]
    /\ round_last = {}

\* The call of page_size_roundup on round_arg.bytes, then the conversion of the
\* result to bytes, in a build with overflow checks or without.
round_up ==
    /\ round_last = {}
    /\ round_last' =
           IF round_arg.overflow_checks /\ roundup_overflows(round_arg.bytes)
           THEN {[bytes |-> round_arg.bytes, result |-> "panic", pages |-> 0, back |-> {}]}
           ELSE LET pages == page_size_roundup(round_arg.bytes)
                IN  {[bytes |-> round_arg.bytes, result |-> "Ok", pages |-> pages,
                      back |-> checked_mul(pages, PAGE_SMALL_SIZE)]}
    /\ UNCHANGED <<round_arg, vpaVars, pmmVars, heapVars, mapVars, lockVars, setVars,
                   backedVars, onceVars, lexVars, walkVars, initVars, coreVars>>

(***************************************************************************)
(* The boot-time singletons: VM_LAYOUT (src/src/mem/init.rs), PDT          *)
(* (src/src/mem/pmm.rs) and GLOBAL_VPA (src/src/mem/vpa.rs), each a        *)
(* spin::Once.                                                             *)
(***************************************************************************)
Singletons == {"VM_LAYOUT", "PDT", "GLOBAL_VPA"}

\* The values a singleton is initialized with.
OnceValues == 1..MaxInits

\* Once::new().
Once_new == [status |-> "Incomplete", value |-> 0, pending |-> 0]

OnceInit ==
    /\ once = [name \in Singletons |-> Once_new]
    /\ once_calls = [name \in Singletons |-> <<>>]
    /\ once_last = [op |-> "none", name |-> "none", result |-> "none", value |-> 0,
                    inits |-> 0]

\* A call_once that runs its closure whatever the status of the cell.
Once_store(cell, v) == [status |-> "Running", value |-> cell.value, pending |-> v]

\* Once::call_once(|| v): the closure runs only when the cell is Incomplete.
Once_call_once(cell, v) ==
    IF cell.status = "Incomplete"
    THEN [status |-> "Running", value |-> cell.value, pending |-> v]
    ELSE cell

\* VM_LAYOUT.call_once of init_vm_layout, PDT.call_once of init_pdt and
\* GLOBAL_VPA.call_once of vpa::initialize, with the value `v`: the call waits while
\* another call is storing its value.
call_once(name, v) ==
    /\ Len(once_calls[name]) < MaxInits
    /\ once[name].status # "Running"
    /\ once' = [once EXCEPT ![name] = Once_call_once(@, v)]
    /\ once_calls' = [once_calls EXCEPT ![name] = Append(@, v)]
    /\ UNCHANGED <<once_last, roundVars, vpaVars, pmmVars, heapVars, mapVars, lockVars,
                   setVars, backedVars, lexVars, walkVars, initVars, coreVars>>

\* The closure of call_once has returned: the value is stored and the cell is Complete.
call_once_complete(name) ==
    /\ once[name].status = "Running"
    /\ once' = [once EXCEPT ![name] = [status |-> "Complete", value |-> @.pending,
                                        pending |-> 0]]
    /\ UNCHANGED <<once_calls, once_last, roundVars, vpaVars, pmmVars, heapVars, mapVars,
                   lockVars, setVars, backedVars, lexVars, walkVars, initVars, coreVars>>

\* Once::get().expect(..) of hhdm_to_physical, kernel_to_physical, get_page_info,
\* PMM::get and get_global_vpa: None, and the panic of expect, unless the cell is
\* Complete.
Once_get(name) ==
    /\ once_last' = IF once[name].status = "Complete"
                    THEN [op |-> "get", name |-> name, result |-> "Some",
                          value |-> once[name].value, inits |-> Len(once_calls[name])]
                    ELSE [op |-> "get", name |-> name, result |-> "panic", value |-> 0,
                          inits |-> Len(once_calls[name])]
    /\ UNCHANGED <<once, once_calls, roundVars, vpaVars, pmmVars, heapVars, mapVars,
                   lockVars, setVars, backedVars, lexVars, walkVars, initVars, coreVars>>

(***************************************************************************)
(* The command-line lexer (src/src/cmdline/lexer.rs).                      *)
(***************************************************************************)
\* The characters of a command line: a letter, the punctuation of the test inputs,
\* white space, and a character no token starts with.
Chars == {"a", ":", ",", "{", "}", " ", "@"}

\* The tokens of one character, #[token(..)] of CmdlineTokenData.
Punctuation ==
    [c \in {":", ",", "{", "}"} |->
        CASE c = ":" -> "Colon" [] c = "," -> "Comma" [] c = "{" -> "OpenBrace"
          [] c = "}" -> "ClosedBrace"]

Token(kind, text) == [kind |-> kind, text |-> text]

EOF == Token("EOF", <<>>)

\* #[logos(skip ..)]: the first position at or after pos that holds no white space.
skip(data, pos) ==
    LET rest == {i \in pos..Len(data) : data[i] # " "}
    IN  IF rest = {} THEN Len(data) + 1 ELSE MinOf(rest)

\* The end of the identifier that starts at pos: the longest match of the regex.
identifier_end(data, pos) ==
    LET stop == {i \in pos..Len(data) : data[i] # "a"}
    IN  IF stop = {} THEN Len(data) + 1 ELSE MinOf(stop)

\* Lexer::next of logos from position pos: None at the end of the input, Some(Err) on
\* a character that starts no token, Some(Ok(token)) otherwise, and the position
\* after the match.
logos_next(data, pos) ==
    LET at_ == skip(data, pos)
    IN  IF at_ > Len(data) THEN [result |-> "None", token |-> EOF, pos |-> at_]
        ELSE IF data[at_] \in DOMAIN Punctuation
        THEN [result |-> "Ok", token |-> Token(Punctuation[data[at_]], <<>>),
              pos |-> at_ + 1]
        ELSE IF data[at_] = "a"
        THEN [result |-> "Ok",
              token |-> Token("Identifier", SubSeq(data, at_, identifier_end(data, at_) - 1)),
              pos |-> identifier_end(data, at_)]
        ELSE [result |-> "Err", token |-> EOF, pos |-> at_ + 1]

\* The tokens of the input from pos on: EOF excluded, a bad character as BadToken.
RECURSIVE tokens(_, _)
tokens(data, pos) ==
    LET t == logos_next(data, pos)
    IN  IF t.result = "None" THEN <<>>
        ELSE <<IF t.result = "Err" THEN Token("BadToken", <<>>) ELSE t.token>>
                 \o tokens(data, t.pos)

BadToken == [code |-> "BadToken", actual |-> EOF, expected |-> EOF]

ExpectedToken(actual, expected) ==
    [code |-> "ExpectedToken", actual |-> actual, expected |-> expected]

\* CmdlineLexer::new: the first token is lexed into `current`.
CmdlineLexer_new(data) ==
    LET t == logos_next(data, 1)
    IN  IF t.result = "Err" THEN {} ELSE {[pos |-> t.pos, current |-> t.token]}

\* CmdlineLexer::next: the lexer after the call, and Ok(token) or Err(error).
lexer_next(data, this) ==
    LET t == logos_next(data, this.pos)
    IN  IF t.result = "Err"
        THEN [lexer |-> [this EXCEPT !.pos = t.pos], result |-> "Err",
              token |-> EOF, error |-> BadToken]
        ELSE [lexer |-> [pos |-> t.pos, current |-> t.token], result |-> "Ok",
              token |-> this.current, error |-> BadToken]

\* CmdlineLexer::peek.
peek(this) == this.current

\* CmdlineLexer::expect.
lexer_expect(data, this, tok) ==
    LET n == lexer_next(data, this)
    IN  IF n.result = "Err" THEN n
        ELSE IF n.token # tok
        THEN [n EXCEPT !.result = "Err", !.error = ExpectedToken(n.token, tok)]
        ELSE n

\* The handler of the parse_block tests: lexer.next().unwrap(), then the assertion
\* that the token is an Identifier.
handler(data, this) ==
    LET n == lexer_next(data, this)
    IN  IF n.result = "Err" \/ n.token.kind # "Identifier"
        THEN [n EXCEPT !.result = "panic"]
        ELSE n

\* The loop of CmdlineLexer::parse_block and the expect(end_tok) after it; fuel bounds
\* the iterations by the characters left.
RECURSIVE block_loop(_, _, _, _, _)
block_loop(data, this, delimiter, consumed, fuel) ==
    LET h == handler(data, this)
        seen == IF h.result = "Err" THEN consumed ELSE Append(consumed, h.token)
    IN  IF h.result # "Ok" \/ fuel = 0
        THEN [lexer |-> h.lexer, result |-> h.result, error |-> h.error,
              consumed |-> seen]
        ELSE IF peek(h.lexer) # delimiter
        THEN [lexer |-> h.lexer, result |-> "Ok", error |-> h.error, consumed |-> seen]
        ELSE LET n == lexer_next(data, h.lexer)
             IN  IF n.result = "Err"
                 THEN [lexer |-> n.lexer, result |-> "Err", error |-> n.error,
                       consumed |-> seen]
                 ELSE block_loop(data, n.lexer, delimiter, seen, fuel - 1)

\* CmdlineLexer::parse_block.
lexer_parse_block(data, this, end_tok, delimiter) ==
    LET body == IF peek(this) # end_tok
                THEN block_loop(data, this, delimiter, <<>>, Len(data))
                ELSE [lexer |-> this, result |-> "Ok", error |-> BadToken,
                      consumed |-> <<>>]
        e == lexer_expect(data, body.lexer, end_tok)
    IN  IF body.result # "Ok" THEN body
        ELSE [lexer |-> e.lexer, result |-> e.result, error |-> e.error,
              consumed |-> body.consumed]

\* The arguments of expect, end_tok and delimiter in the model.
Expected == {Token("Colon", <<>>), Token("Comma", <<>>), Token("ClosedBrace", <<>>)}

LexInit ==
    /\ lex_data = <<>>
    /\ lexer = {}
    /\ lex_calls = <<>>
    /\ lex_consumed = <<>>

\* A call recorded in lex_calls.
LexCall(op, arg, r) ==
    [op |-> op, arg |-> arg, result |-> r.result, token |-> r.token, error |-> r.error]

\* CmdlineLexer::new(data).unwrap().
new ==
    /\ lexer = {}
    /\ lex_calls = <<>>
    /\ CmdlineLexer_new(lex_data) # {}
    /\ lexer' = CmdlineLexer_new(lex_data)
    /\ lex_calls' = <<[op |-> "new", arg |-> EOF, result |-> "Ok", token |-> EOF,
                       error |-> BadToken]>>
    /\ UNCHANGED <<lex_data, lex_consumed, roundVars, onceVars, vpaVars, pmmVars, heapVars,
                   mapVars, lockVars, setVars, backedVars, walkVars, initVars, coreVars>>

\* lexer.next().
next ==
    /\ lexer # {}
    /\ Len(lex_calls) <= MaxLexCalls
    /\ \E this \in lexer :
           LET n == lexer_next(lex_data, this)
           IN  /\ lexer' = {n.lexer}
               /\ lex_calls' = Append(lex_calls, LexCall("next", EOF, n))
    /\ UNCHANGED <<lex_data, lex_consumed, roundVars, onceVars, vpaVars, pmmVars, heapVars,
                   mapVars, lockVars, setVars, backedVars, walkVars, initVars, coreVars>>

\* lexer.expect(tok).
expect_token(tok) ==
    /\ lexer # {}
    /\ Len(lex_calls) <= MaxLexCalls
    /\ \E this \in lexer :
           LET e == lexer_expect(lex_data, this, tok)
           IN  /\ lexer' = {e.lexer}
               /\ lex_calls' = Append(lex_calls, LexCall("expect", tok, e))
    /\ UNCHANGED <<lex_data, lex_consumed, roundVars, onceVars, vpaVars, pmmVars, heapVars,
                   mapVars, lockVars, setVars, backedVars, walkVars, initVars, coreVars>>

\* lexer.parse_block(end_tok, delimiter, handler).
parse_block(end_tok, delimiter) ==
    /\ lexer # {}
    /\ Len(lex_calls) <= MaxLexCalls
    /\ \E this \in lexer :
           \E b \in {lexer_parse_block(lex_data, this, end_tok, delimiter)} :
               /\ lexer' = {b.lexer}
               /\ lex_consumed' = b.consumed
               /\ lex_calls' = Append(lex_calls,
                                      [op |-> "parse_block", arg |-> end_tok,
                                       result |-> b.result, token |-> delimiter,
                                       error |-> b.error])
    /\ UNCHANGED <<lex_data, roundVars, onceVars, vpaVars, pmmVars, heapVars,
                   mapVars, lockVars, setVars, backedVars, walkVars, initVars, coreVars>>

(***************************************************************************)
(* The walk of map_page_small, entry by entry (walk_entry of               *)
(* src/src/arch/x86_64/paging.rs).  A table is named by its frame.  Core c *)
(* maps through its LOCAL_PAGE_TABLE, whose root table is frame c; entry   *)
(* 256 of every root points to the PDPT that map_kernel_pages created.     *)
(* The model's pages are those around the base of the higher half: the     *)
(* pages below it lie under root entry 255, the others under entry 256.    *)
(***************************************************************************)
\* The PDPT of root entry 256, shared by every page-table set.
KernelPdpt == NumCores + 1

pml4_index(virt) ==
    IF virt >= LARGE_PAGE_PAGE_SIZE THEN PAGE_SIZE_ENTRIES \div 2
    ELSE PAGE_SIZE_ENTRIES \div 2 - 1

pdpt_index(virt) == (virt \div LARGE_PAGE_PAGE_SIZE) % PAGE_SIZE_ENTRIES

pd_index(virt) == (virt \div MEDIUM_PAGE_PAGE_SIZE) % PAGE_SIZE_ENTRIES

pt_index(virt) == virt % PAGE_SIZE_ENTRIES

\* The index walk_entry is called with at each of the three levels of map_page_small.
walk_index(level, virt) ==
    CASE level = 1 -> pml4_index(virt)
      [] level = 2 -> pdpt_index(virt)
      [] level = 3 -> pd_index(virt)

\* table[index].present() and table[index].address(), as an Option of the frame.
entry_of(entries, table, index) == {e[3] : e \in {x \in entries : x[1] = table /\ x[2] = index}}

NoWalk == [step |-> "none", level |-> 0, table |-> 0]

WalkInit ==
    /\ pt_entry = {<<c, PAGE_SIZE_ENTRIES \div 2, KernelPdpt>> : c \in Cores}
    /\ pt_leaves = {}
    /\ pt_next = KernelPdpt + 1
    /\ walker = [c \in Cores |-> NoWalk]
    /\ walk_done = {}

\* The pages the cores map: the last page of the lower half, and three pages of the
\* higher half, the first two under one PT and the third under another PT of the
\* same PD.
WalkCalls ==
    {map_page_small(virt, 0) :
        virt \in {LARGE_PAGE_PAGE_SIZE - 1, LARGE_PAGE_PAGE_SIZE, LARGE_PAGE_PAGE_SIZE + 1,
                  LARGE_PAGE_PAGE_SIZE + MEDIUM_PAGE_PAGE_SIZE}}

\* The one map_page_small call of core c.
walk_call(c, call) ==
    /\ \A d \in walk_done : d.core # c
    /\ map_page_call(c, call)

\* The closure of map_page_small starts at self.pml4().
walk_start(c) ==
    /\ lk[c].pc = "action"
    /\ walker[c] = NoWalk
    /\ walker' = [walker EXCEPT ![c] = [step |-> "present", level |-> 1, table |-> c]]
    /\ UNCHANGED <<pt_entry, pt_leaves, pt_next, walk_done>>
    /\ UNCHANGED <<vpaVars, pmmVars, heapVars, mapVars, lockVars, setVars, backedVars,
                   roundVars, onceVars, lexVars, initVars, coreVars>>

\* walk_entry: `if !table[index].present()`.
walk_present(c) ==
    /\ walker[c].step = "present"
    /\ LET call == CHOOSE x \in mapping[c] : TRUE
           e == entry_of(pt_entry, walker[c].table, walk_index(walker[c].level, call.virt))
       IN  walker' = [walker EXCEPT ![c].step = IF e = {} THEN "create" ELSE "address"]
    /\ UNCHANGED <<pt_entry, pt_leaves, pt_next, walk_done>>
    /\ UNCHANGED <<vpaVars, pmmVars, heapVars, mapVars, lockVars, setVars, backedVars,
                   roundVars, onceVars, lexVars, initVars, coreVars>>

\* `table[index] = U::create_page_map(alloc.allocate_zeroed_page())`: the entry is
\* overwritten with the new table.
create_page_map(entries, table, index, frame) ==
    {x \in entries : ~(x[1] = table /\ x[2] = index)} \cup {<<table, index, frame>>}

walk_create(c) ==
    /\ walker[c].step = "create"
    /\ LET call == CHOOSE x \in mapping[c] : TRUE
       IN  pt_entry' = create_page_map(pt_entry, walker[c].table,
                                       walk_index(walker[c].level, call.virt), pt_next)
    /\ pt_next' = pt_next + 1
    /\ walker' = [walker EXCEPT ![c].step = "address"]
    /\ UNCHANGED <<pt_leaves, walk_done>>
    /\ UNCHANGED <<vpaVars, pmmVars, heapVars, mapVars, lockVars, setVars, backedVars,
                   roundVars, onceVars, lexVars, initVars, coreVars>>

\* walk_entry: `table[index].address()`, the table of the next level.
walk_address(c) ==
    /\ walker[c].step = "address"
    /\ LET call == CHOOSE x \in mapping[c] : TRUE
           e == entry_of(pt_entry, walker[c].table, walk_index(walker[c].level, call.virt))
           next_table == CHOOSE f \in e : TRUE
       IN  walker' = [walker EXCEPT ![c] =
                         IF walker[c].level < 3
                         THEN [step |-> "present", level |-> walker[c].level + 1,
                               table |-> next_table]
                         ELSE [step |-> "leaf", level |-> 4, table |-> next_table]]
    /\ UNCHANGED <<pt_entry, pt_leaves, pt_next, walk_done>>
    /\ UNCHANGED <<vpaVars, pmmVars, heapVars, mapVars, lockVars, setVars, backedVars,
                   roundVars, onceVars, lexVars, initVars, coreVars>>

\* `pt[pt_index(virt)] = PTEntry::new(..)`, the end of the closure: the guard of
\* do_action is dropped next.
walk_leaf(c) ==
    /\ walker[c].step = "leaf"
    /\ LET call == CHOOSE x \in mapping[c] : TRUE
       IN  /\ pt_leaves' = pt_leaves \cup {<<walker[c].table, pt_index(call.virt)>>}
           /\ walk_done' = walk_done \cup {[core |-> c, virt |-> call.virt]}
    /\ walker' = [walker EXCEPT ![c] = NoWalk]
    /\ mapping' = [mapping EXCEPT ![c] = {}]
    /\ lk' = [lk EXCEPT ![c].pc = IF "page" \in held(c) THEN "unlock" ELSE "idle"]
    /\ UNCHANGED <<pt_entry, pt_next>>
    /\ UNCHANGED <<irq, int_lock, guards, dropped>>
    /\ UNCHANGED <<vpaVars, pmmVars, heapVars, mapVars, setVars, backedVars,
                   roundVars, onceVars, lexVars, initVars, coreVars>>

\* The steps of the walk.
WalkSteps ==
    \/ \E c \in Cores : walk_start(c)
    \/ \E c \in Cores : walk_present(c)
    \/ \E c \in Cores : walk_create(c)
    \/ \E c \in Cores : walk_address(c)
    \/ \E c \in Cores : walk_leaf(c)

(***************************************************************************)
(* mem::init (src/src/mem/init.rs): init_vm_layout, then the steps of init *)
(* in program order.  Pages are counted from the base of the higher half.  *)
(***************************************************************************)
\* size_of::<page_info::PageState>(): an Option<PageFrameNumber> of 16 bytes whose
\* unused discriminant values hold the variant Used.
PAGE_STATE_SIZE == 16

\* size_of::<VirtualPageNode>(): two RBTreeLinks of three pointers and a VFRange.
NODE_SIZE == 64

\* VFRange::new(get_higher_half_addr(), get_kernel_virtual_base()).
LayoutRange == VFRange(0, LayoutPages)

\* The direct-map offsets the loader reports: the base of the higher half, and two
\* offsets above it.
HhdmBases == {0, LayoutPadding, LayoutPadding + 4}

LayoutInit ==
    /\ vm_layout = {}
    /\ init_panic = {}

\* The VirtualAllocation that allocate_padded builds at `base`.
allocation(base, sz, padding) ==
    [range |-> sized(base, padding + sz + padding), usable |-> sized(base + padding, sz)]

\* pdt_size of init_vm_layout.
pdt_size(hhdm) == page_size_roundup(PAGE_STATE_SIZE * hhdm)

\* A pdt_size computed from the size of a descriptor.
pdt_size_of_page(hhdm) == page_size_roundup(PAGE_INFO_SIZE * hhdm)

\* The two allocate_padded(..).expect(..).leak() of init_vm_layout on the free list
\* `list`, and the layout stored in VM_LAYOUT.
layout_regions(list, hhdm_base, hhdm) ==
    LET p == early_allocate(list, LayoutPadding + pdt_size(hhdm) + LayoutPadding)
    IN  IF p.result # "Some"
        THEN [result |-> "panic", message |-> "failed to allocate memory for pdt",
              free |-> list, regions |-> {}, layout |-> {}]
        ELSE LET h == early_allocate(p.free, LayoutPadding + MaxHeapPages + LayoutPadding)
                 pdt_region == allocation(p.base, pdt_size(hhdm), LayoutPadding)
                 heap_region == allocation(h.base, MaxHeapPages, LayoutPadding)
             IN  IF h.result # "Some"
                 THEN [result |-> "panic", message |-> "failed to allocate memory for heap",
                       free |-> p.free, regions |-> {}, layout |-> {}]
                 ELSE [result |-> "Ok", message |-> "-", free |-> h.free,
                       regions |-> {pdt_region, heap_region},
                       layout |-> {[hhdm_base |-> hhdm_base, hhdm_size |-> hhdm,
                                    hhdm_end |-> hhdm_base + hhdm,
                                    pdt_base |-> pdt_region.usable.start,
                                    pdt_end |-> pdt_region.usable.end,
                                    heap_base |-> heap_region.usable.start,
                                    heap_end |-> heap_region.usable.end]}]

\* init_vm_layout over the memory map `map` with the direct map at hhdm_base.
layout_of(map, hhdm_base) ==
    IF map = <<>>
    THEN [result |-> "panic", message |-> "memory map is empty", free |-> <<>>,
          regions |-> {}, layout |-> {}]
    ELSE LET a == early(LayoutRange,
                        <<VFRange(hhdm_base - LayoutPadding,
                                  hhdm_base + hhdm_size(map) + LayoutPadding)>>)
         IN  IF a.result # "Ok"
             THEN [result |-> "panic", message |-> "failed to reserve range for HHDM",
                   free |-> a.free, regions |-> {}, layout |-> {}]
             ELSE layout_regions(a.free, hhdm_base, hhdm_size(map))

\* init_vm_layout: the bootstrap virtual allocator with the direct map reserved, the
\* regions of the descriptor table and of the heap, and VM_LAYOUT.call_once.
init_vm_layout(hhdm_base) ==
    /\ vpa_kind = "none"
    /\ once["VM_LAYOUT"].status = "Incomplete"
    /\ \E r \in {layout_of(memory_map, hhdm_base)} :
           /\ vpa_kind' = IF r.result = "Ok" THEN "early" ELSE "failed"
           /\ free_ranges' = r.free
           /\ leaked' = r.regions
           /\ vpa_halted' = (r.result # "Ok")
           /\ vpa_last' = Call("early", LayoutRange, 0, 0, r.result, 0)
           /\ vm_layout' = r.layout
           /\ init_panic' = IF r.result = "Ok" THEN {} ELSE {r.message}
           /\ once' = IF r.result = "Ok"
                      THEN [once EXCEPT !["VM_LAYOUT"] =
                                [status |-> "Complete", value |-> 1, pending |-> 0]]
                      ELSE once
           /\ once_calls' = IF r.result = "Ok"
                            THEN [once_calls EXCEPT !["VM_LAYOUT"] = Append(@, 1)]
                            ELSE once_calls
    /\ vm_range' = LayoutRange
    /\ UNCHANGED <<by_base, by_size, handles, vpa_calls, once_last>>
    /\ UNCHANGED <<pmmVars, heapVars, mapVars, lockVars, setVars, backedVars, roundVars,
                   lexVars, walkVars, coreVars>>

\* The steps of init in an order that builds the tree allocator before the heap.
InitOrder_tree_first ==
    <<"layout", "tables", "paging", "pdt", "box", "tree", "heap", "vpa">>

\* The steps of init in program order; "box" is the first Box::new of
\* TreeAllocator::new, which finds the heap empty.
InitOrder ==
    <<"layout", "tables", "paging", "pdt", "heap", "box", "tree", "vpa">>

\* What a step of init leaves behind when it has returned.
init_done(step) ==
    CASE step = "layout" -> vpa_kind # "none"
      [] step = "tables" -> pt_roots # <<>>
      [] step = "paging" -> pt_roots # <<>> /\ absent(pt_roots[1], kernel_root_entries) = {}
      [] step = "pdt" -> phase = "ready"
      [] step = "heap" -> heap # {}
      [] step = "box" -> heap_last.result # "-"
      [] step = "tree" -> vpa_kind = "tree"
      [] step = "vpa" -> once["GLOBAL_VPA"].status = "Complete"

\* A panic has ended init.
init_panicked ==
    \/ init_panic # {}
    \/ phase = "halted"
    \/ vpa_halted
    \/ heap_last.result = "panic"

\* The statement init is at.
init_at(step) ==
    /\ ~init_panicked
    /\ \E k \in 1..Len(InitOrder) :
           /\ InitOrder[k] = step
           /\ ~init_done(step)
           /\ \A j \in 1..(k - 1) : init_done(InitOrder[j])

\* init has returned.
init_returned ==
    /\ ~init_panicked
    /\ \A k \in 1..Len(InitOrder) : init_done(InitOrder[k])

\* An expect on a singleton that is not initialized: init ends with `message`.
init_expect_failed(message) ==
    /\ init_panic' = {message}
    /\ UNCHANGED <<vm_layout, roundVars, onceVars, lexVars, walkVars, coreVars>>
    /\ UNCHANGED <<vpaVars, pmmVars, heapVars, mapVars, lockVars, setVars, backedVars>>

init_layout ==
    /\ init_at("layout")
    /\ \E hhdm_base \in HhdmBases : init_vm_layout(hhdm_base)

init_tables ==
    /\ init_at("tables")
    /\ PageTableSet_new

\* transition_paging: its map_range calls, then map_kernel_pages.
init_paging ==
    /\ init_at("paging")
    /\ \/ \E virt \in BootMapped : transition_paging(virt)
       \/ /\ \A virt \in BootMapped : walk(virt) \subseteq tables
          /\ map_kernel_pages

init_pdt_call ==
    /\ init_at("pdt")
    /\ init_pdt

\* init_malloc: PMM::get() expects the descriptor table.
init_heap ==
    /\ init_at("heap")
    /\ IF phase # "ready" THEN init_expect_failed("pdt not initialized")
       ELSE \E layout \in vm_layout : init_malloc(VFRange(layout.heap_base, layout.heap_end))

\* The first Box::new of TreeAllocator::new: GlobalAllocImpl::alloc expects the heap,
\* and the heap, which has no memory yet, calls handle_oom.
init_box ==
    /\ init_at("box")
    /\ IF heap = {} THEN init_expect_failed("alloc not initialized")
       ELSE handle_oom(NODE_SIZE)

\* VirtualAllocator::tree(early_allocator).
init_tree ==
    /\ init_at("tree")
    /\ IF heap = {} THEN init_expect_failed("alloc not initialized")
       ELSE VirtualAllocator_tree

\* vpa::initialize: GLOBAL_VPA.call_once.
init_vpa ==
    /\ init_at("vpa")
    /\ \/ once["GLOBAL_VPA"].status = "Incomplete" /\ call_once("GLOBAL_VPA", 1)
       \/ call_once_complete("GLOBAL_VPA")

\* After init: the kernel reserves virtual pages through get_global_vpa() and drops
\* the allocations.
after_init_allocate ==
    /\ init_returned
    /\ vpa_calls < MaxInitCalls
    /\ \E sz \in 1..MaxSize, padding \in 0..MaxPadding : allocate_padded(sz, padding)

after_init_drop ==
    /\ init_returned
    /\ vpa_calls <= MaxInitCalls
    /\ \E h \in handles : drop(h)

(***************************************************************************)
(* The locks of the memory core, and GlobalAllocImpl                       *)
(* (src/src/mem/malloc.rs).  Talc is an external crate: its malloc and     *)
(* grow_in_place succeed or fail as it decides.                            *)
(***************************************************************************)
\* VirtualAllocator.inner, the heap's IntMutex (ALLOC), KERNEL_GLOBAL_PAGE_LOCK and
\* PDTData.free_list.
LockNames == {"vpa", "heap", "page", "pmm"}

\* 0x10000: the old size above which realloc copies without the heap lock.
COPY_THRESHOLD == 65536

\* Sizes in bytes of the blocks the cores allocate.
BlockSizes == {COPY_THRESHOLD - 1, COPY_THRESHOLD, COPY_THRESHOLD + 1}

NotInRealloc == [pc |-> "idle", old |-> {}, new |-> {}, result |-> "-", calls |-> 0]

CoreInit ==
    /\ locks = [m \in LockNames |-> {}]
    /\ prog = [c \in Cores |-> <<>>]
    /\ blocks = {}
    /\ ra = [c \in Cores |-> NotInRealloc]

nonCoreVars == <<vpaVars, pmmVars, heapVars, mapVars, lockVars, setVars, backedVars,
                 roundVars, onceVars, lexVars, walkVars, initVars>>

\* A core that runs no operation of the memory core.
idle(c) == ra[c].pc = "idle" /\ prog[c] = <<>>

\* GlobalAllocImpl::alloc: the guard is taken, Talc::malloc runs, the guard is dropped.
\* A core works on one block at a time.
alloc(c, sz) ==
    /\ idle(c)
    /\ locks["heap"] = {}
    /\ {b \in blocks : b.owner = c} = {}
    /\ \E ok \in BOOLEAN :
           blocks' = IF ok
                     THEN blocks \cup {[owner |-> c, size |-> sz, data |-> 1]}
                     ELSE blocks
    /\ UNCHANGED <<locks, prog, ra, nonCoreVars>>

\* GlobalAllocImpl::dealloc.
dealloc(c, b) ==
    /\ idle(c)
    /\ locks["heap"] = {}
    /\ b \in blocks
    /\ b.owner = c
    /\ blocks' = blocks \ {b}
    /\ UNCHANGED <<locks, prog, ra, nonCoreVars>>

\* A test that sends every copy of at least the threshold outside the lock.
copies_unlocked_from(old_size) == old_size >= COPY_THRESHOLD

\* The test `old_layout.size() > 0x10000` of realloc.
copies_unlocked(old_size) == old_size > COPY_THRESHOLD

\* realloc with new_size > old_layout.size(): delegate.lock().grow_in_place(..) under
\* a guard that lives for the statement.  On Ok the block has grown where it is and
\* realloc returns its pointer.
realloc_grow_in_place(c, b) ==
    /\ idle(c)
    /\ ra[c].calls < MaxReallocs
    /\ locks["heap"] = {}
    /\ b \in blocks
    /\ b.owner = c
    /\ \E ok \in BOOLEAN :
           IF ok
           THEN /\ blocks' = (blocks \ {b}) \cup {[b EXCEPT !.size = @ + 1]}
                /\ ra' = [ra EXCEPT ![c] = [pc |-> "idle", old |-> {b}, new |-> {},
                                            result |-> "grown", calls |-> @.calls + 1]]
           ELSE /\ ra' = [ra EXCEPT ![c] = [pc |-> "lock", old |-> {b}, new |-> {},
                                            result |-> "-", calls |-> @.calls]]
                /\ UNCHANGED blocks
    /\ UNCHANGED <<locks, prog, nonCoreVars>>

\* let mut lock = delegate.lock().
realloc_lock(c) ==
    /\ ra[c].pc = "lock"
    /\ locks["heap"] = {}
    /\ locks' = [locks EXCEPT !["heap"] = {c}]
    /\ ra' = [ra EXCEPT ![c].pc = "malloc"]
    /\ UNCHANGED <<prog, blocks, nonCoreVars>>

\* lock.malloc(new_layout): on Err realloc returns null_mut() and the guard is dropped.
realloc_malloc(c) ==
    /\ ra[c].pc = "malloc"
    /\ \E ok \in BOOLEAN, old \in ra[c].old :
           IF ok
           THEN LET fresh == [owner |-> c, size |-> old.size + 1, data |-> 0]
                IN  /\ blocks' = blocks \cup {fresh}
                    /\ ra' = [ra EXCEPT ![c].new = {fresh},
                                        ![c].pc = IF copies_unlocked(old.size)
                                                  THEN "drop" ELSE "copy"]
                    /\ UNCHANGED locks
           ELSE /\ ra' = [ra EXCEPT ![c].pc = "idle", ![c].result = "null",
                                    ![c].calls = @ + 1]
                /\ locks' = [locks EXCEPT !["heap"] = @ \ {c}]
                /\ UNCHANGED blocks
    /\ UNCHANGED <<prog, nonCoreVars>>

\* drop(lock) before a copy of more than 0x10000 bytes.
realloc_drop(c) ==
    /\ ra[c].pc = "drop"
    /\ locks' = [locks EXCEPT !["heap"] = @ \ {c}]
    /\ ra' = [ra EXCEPT ![c].pc = "copy"]
    /\ UNCHANGED <<prog, blocks, nonCoreVars>>

\* allocation.copy_from_nonoverlapping(ptr, old_layout.size()).
realloc_copy(c) ==
    /\ ra[c].pc = "copy"
    /\ \E src \in ra[c].old, dst \in ra[c].new :
           LET copied == [dst EXCEPT !.data = src.data]
           IN  /\ blocks' = (blocks \ {dst}) \cup {copied}
               /\ ra' = [ra EXCEPT ![c].new = {copied},
                                   ![c].pc = IF c \in locks["heap"] THEN "free" ELSE "relock"]
    /\ UNCHANGED <<locks, prog, nonCoreVars>>

\* lock = delegate.lock() after the copy.
realloc_relock(c) ==
    /\ ra[c].pc = "relock"
    /\ locks["heap"] = {}
    /\ locks' = [locks EXCEPT !["heap"] = {c}]
    /\ ra' = [ra EXCEPT ![c].pc = "free"]
    /\ UNCHANGED <<prog, blocks, nonCoreVars>>

\* lock.free(nn_ptr, old_layout), and the return of the new pointer: the guard is
\* dropped.
realloc_free(c) ==
    /\ ra[c].pc = "free"
    /\ blocks' = blocks \ ra[c].old
    /\ locks' = [locks EXCEPT !["heap"] = @ \ {c}]
    /\ ra' = [ra EXCEPT ![c].pc = "idle", ![c].result = "moved", ![c].calls = @ + 1]
    /\ UNCHANGED <<prog, nonCoreVars>>

(***************************************************************************)
(* The lock and unlock steps of the operations of the memory core, in the  *)
(* order of the source.                                                    *)
(***************************************************************************)
Lock(m) == [op |-> "lock", m |-> m]

Unlock(m) == [op |-> "unlock", m |-> m]

\* PMM::allocate_pages: the guard of the free list lives for the call.
allocate_pages_steps == <<Lock("pmm"), Unlock("pmm")>>

\* walk_entry over `missing` entries that are not present: one allocate_zeroed_page
\* each.
RECURSIVE walk_entry_steps(_)
walk_entry_steps(missing) ==
    IF missing = 0 THEN <<>> ELSE allocate_pages_steps \o walk_entry_steps(missing - 1)

\* map_page_small: do_action takes KERNEL_GLOBAL_PAGE_LOCK around the walk when the
\* page is in the higher half.
map_page_small_steps(needs_lock, missing) ==
    IF needs_lock
    THEN <<Lock("page")>> \o walk_entry_steps(missing) \o <<Unlock("page")>>
    ELSE walk_entry_steps(missing)

\* The loop of handle_oom, which Talc calls inside malloc: per page a frame and a
\* mapping in the heap's range, in the higher half.
RECURSIVE oom_pages_steps(_, _)
oom_pages_steps(pages, missing) ==
    IF pages = 0 THEN <<>>
    ELSE allocate_pages_steps \o map_page_small_steps(TRUE, missing)
             \o oom_pages_steps(pages - 1, 0)

\* VirtualAllocator::allocate_padded for a node that is left empty (its Box is
\* dropped) or not.
allocate_padded_steps(emptied) ==
    <<Lock("vpa")>>
        \o (IF emptied THEN <<Lock("heap"), Unlock("heap")>> ELSE <<>>)
        \o <<Unlock("vpa")>>

\* A handle_oom that takes the range it maps from the virtual allocator.
handle_oom_allocating_steps(pages, missing) ==
    allocate_padded_steps(FALSE) \o oom_pages_steps(pages, missing)

\* BumpHeap::handle_oom for a layout of `pages` pages.
handle_oom_steps(pages, missing) == oom_pages_steps(pages, missing)

\* GlobalAllocImpl::alloc; Talc calls handle_oom when it has no block to give.
alloc_steps(pages, missing) ==
    <<Lock("heap")>> \o handle_oom_steps(pages, missing) \o <<Unlock("heap")>>

\* GlobalAllocImpl::dealloc.
dealloc_steps == <<Lock("heap"), Unlock("heap")>>

\* VirtualAllocator::free: the Boxes of the `merged` neighbours are dropped and the
\* Box of the new node is allocated under the allocator's lock.
RECURSIVE dropped_steps(_)
dropped_steps(merged) ==
    IF merged = 0 THEN <<>> ELSE dealloc_steps \o dropped_steps(merged - 1)

free_steps(merged, pages, missing) ==
    <<Lock("vpa")>> \o dropped_steps(merged) \o alloc_steps(pages, missing)
        \o <<Unlock("vpa")>>

\* VirtualAllocator::allocate_backed_padded of one page: the range, then a frame and
\* a mapping; the ranges of the allocator are in the higher half.
allocate_backed_padded_steps(emptied, missing) ==
    allocate_padded_steps(emptied) \o allocate_pages_steps
        \o map_page_small_steps(TRUE, missing)

\* The operations the cores run: physical allocation, mapping in either half, heap
\* allocation with and without growth, and virtual allocation and release.
Operations ==
    {allocate_pages_steps, dealloc_steps}
        \cup {map_page_small_steps(h, n) : h \in BOOLEAN, n \in 1..MaxMissing}
        \cup {alloc_steps(p, n) : p \in 0..1, n \in 0..MaxMissing}
        \cup {allocate_padded_steps(e) : e \in BOOLEAN}
        \cup {free_steps(m, p, n) : m \in 0..2, p \in 0..1, n \in 0..MaxMissing}
        \cup {allocate_backed_padded_steps(e, n) : e \in BOOLEAN, n \in 0..MaxMissing}

\* A core enters an operation.
enter(c, steps) ==
    /\ idle(c)
    /\ prog' = [prog EXCEPT ![c] = steps]
    /\ UNCHANGED <<locks, blocks, ra, nonCoreVars>>

\* Mutex::lock and IntMutex::lock return once the lock is free.
acquire(c) ==
    /\ prog[c] # <<>>
    /\ Head(prog[c]).op = "lock"
    /\ locks[Head(prog[c]).m] = {}
    /\ locks' = [locks EXCEPT ![Head(prog[c]).m] = {c}]
    /\ prog' = [prog EXCEPT ![c] = Tail(@)]
    /\ UNCHANGED <<blocks, ra, nonCoreVars>>

\* The drop of a guard.
release(c) ==
    /\ prog[c] # <<>>
    /\ Head(prog[c]).op = "unlock"
    /\ locks' = [locks EXCEPT ![Head(prog[c]).m] = @ \ {c}]
    /\ prog' = [prog EXCEPT ![c] = Tail(@)]
    /\ UNCHANGED <<blocks, ra, nonCoreVars>>

RestInit == RoundInit /\ OnceInit /\ LexInit /\ WalkInit /\ LayoutInit /\ CoreInit

(***************************************************************************)
(* Specifications.                                                         *)
(***************************************************************************)
VpaCalls ==
    \/ \E sz \in 1..MaxSize, padding \in 0..MaxPadding : allocate_padded(sz, padding)
    \/ \E h \in handles : leak(h)
    \/ \E h \in handles : drop(h)
    \/ VirtualAllocator_tree

Init ==
    /\ VpaInit /\ PmmInit /\ HeapInit /\ PagingInit /\ LockInit /\ SetInit /\ BackedInit
    /\ RestInit
    /\ NoInterrupts

\* The virtual allocators with well-behaved callers: free is called only with ranges
\* they own.
Next ==
    \/ \E c \in EarlyConfigs : VirtualAllocator_early(c.range, c.reservations)
    \/ VpaCalls
    \/ \E range \in OwnedRanges : free(range)

\* The virtual allocators are exercised over one memory map: they do not read it.
VpaOnly == Init /\ memory_map = <<Entry(0, 1, "Usable")>>

Spec == VpaOnly /\ [][Next]_vars

\* The cores calling alloc, dealloc and realloc of the global allocator.
NextRealloc ==
    \/ \E c \in Cores, sz \in BlockSizes : alloc(c, sz)
    \/ \E c \in Cores, b \in blocks : dealloc(c, b)
    \/ \E c \in Cores, b \in blocks : realloc_grow_in_place(c, b)
    \/ \E c \in Cores : realloc_lock(c)
    \/ \E c \in Cores : realloc_malloc(c)
    \/ \E c \in Cores : realloc_drop(c)
    \/ \E c \in Cores : realloc_copy(c)
    \/ \E c \in Cores : realloc_relock(c)
    \/ \E c \in Cores : realloc_free(c)

SpecRealloc == VpaOnly /\ [][NextRealloc]_vars

\* The cores running the operations of the memory core side by side.
NextLocks ==
    \/ \E c \in Cores, steps \in Operations : enter(c, steps)
    \/ \E c \in Cores : acquire(c)
    \/ \E c \in Cores : release(c)

SpecLocks == VpaOnly /\ [][NextLocks]_vars

\* The virtual allocators with any caller: free is called with any range of the
\* address space.
NextAnyFree ==
    \/ \E c \in GenericConfigs : VirtualAllocator_early(c.range, c.reservations)
    \/ VpaCalls
    \/ \E range \in AllRanges(vm_range) : free_any(range)

SpecAnyFree == VpaOnly /\ [][NextAnyFree]_vars

\* VirtualAllocator::early over any list of reservations, one reserve_range at a time,
\* and the allocations made from the allocator it returns.
NextReserve ==
    \/ early_new(VFRange(0, NumPages))
    \/ \E ele \in AllRanges(VFRange(0, NumPages)) : early_reserve(ele)
    \/ early_return
    \/ \E sz \in 1..MaxSize, padding \in 0..MaxPadding : allocate_padded(sz, padding)

SpecReserve == VpaOnly /\ [][NextReserve]_vars

\* Boot of the physical allocators.
Boot ==
    \/ PageTableSet_new
    \/ \E virt \in BootMapped : transition_paging(virt)
    \/ init_pdt

\* Boot, then cores calling PMM::allocate_single_page.
NextPmm ==
    \/ Boot
    \/ \E c \in 1..NumCores : allocate_lock(c)
    \/ \E c \in 1..NumCores : allocate_read(c)
    \/ \E c \in 1..NumCores : allocate_inspect(c)
    \/ \E c \in 1..NumCores : allocate_return(c)

SpecPmm == Init /\ [][NextPmm]_vars

\* Boot, and calls of the bootstrap physical allocator one by one.
NextEarly ==
    \/ Boot
    \/ early_allocate_call

SpecEarly == Init /\ [][NextEarly]_vars

\* mem::init from its first statement, and the kernel after it has returned.
NextInit ==
    \/ init_layout
    \/ init_tables
    \/ init_paging
    \/ init_pdt_call
    \/ init_heap
    \/ init_box
    \/ init_tree
    \/ init_vpa
    \/ after_init_allocate
    \/ after_init_drop

SpecInit == Init /\ [][NextInit]_vars

\* Boot, then the heap growing through handle_oom.
NextHeap ==
    \/ Boot
    \/ \E start \in HeapStarts, n \in 1..MaxHeapPages : init_malloc(sized(start, n))
    \/ \E bytes \in OomLayouts : handle_oom(bytes)

SpecHeap == Init /\ [][NextHeap]_vars

\* map_range on a fresh table set, over a memory map with frames for every table.
NextMap ==
    \/ PageTableSet_new
    \/ \E a \in MapArgs : map_range(a.base, a.phys, a.size)

MapOnly ==
    Init /\ memory_map = <<Entry(0, MaxEntrySize, "Usable"),
                           Entry(MaxEntrySize, MaxEntrySize, "Usable")>>

SpecMap == MapOnly /\ [][NextMap]_vars

\* Cores that enter the kernel's code with their interrupt-enable flag set or clear.
AnyInterrupts ==
    /\ VpaInit /\ PmmInit /\ HeapInit /\ PagingInit /\ LockInit /\ SetInit /\ BackedInit
    /\ RestInit
    /\ irq \in [Cores -> BOOLEAN]

\* The steps of IntMutex::lock and of the drop of its guard.
LockSteps ==
    \/ \E c \in Cores : lock_irq_disable(c)
    \/ \E c \in Cores : lock_swap(c)
    \/ \E c \in Cores : lock_restore(c)
    \/ \E c \in Cores : lock_spin(c)
    \/ \E c \in Cores : drop_store(c)
    \/ \E c \in Cores : drop_restore(c)

\* Cores that take and drop the IntMutexes, nested in any order.
NextLock ==
    \/ \E c \in Cores, m \in Mutexes : lock(c, m)
    \/ LockSteps

LockOnly ==
    AnyInterrupts /\ memory_map = <<Entry(0, MaxEntrySize, "Usable"),
                                    Entry(MaxEntrySize, MaxEntrySize, "Usable")>>

SpecLock == LockOnly /\ [][NextLock]_vars

\* Boot, then cores that map pages of both halves of the address space.
NextDoAction ==
    \/ PageTableSet_new
    \/ init_pdt
    \/ LockSteps
    \/ \E c \in Cores, call \in MapCalls : map_page_call(c, call)
    \/ \E c \in Cores : map_page_action(c)

SpecDoAction == LockOnly /\ [][NextDoAction]_vars

\* The table set of boot, mappings through every table set, and the bring-up of the
\* cores.
NextSets ==
    \/ PageTableSet_new
    \/ \E ts \in 1..Len(pt_roots), index \in RootIndices, page \in PagesBelow :
           map_below(ts, index, page)
    \/ map_kernel_pages
    \/ initialize_mp
    \/ \E c \in Cores : initialize_core(c)

SpecSets == MapOnly /\ [][NextSets]_vars

\* Boot and a virtual allocator, whole or with its second page reserved, that hands
\* out allocations backed by frames.
NextBacked ==
    \/ PageTableSet_new
    \/ init_pdt
    \/ \E rs \in {<<>>, <<VFRange(1, 2)>>} : VirtualAllocator_early(VFRange(0, NumPages), rs)
    \/ VirtualAllocator_tree
    \/ \E sz \in 1..MaxSize, padding \in 0..MaxPadding : allocate_backed_padded(sz, padding)
    \/ \E h \in handles : leak(h)
    \/ \E h \in handles : drop_backed(h)

SpecBacked == MapOnly /\ [][NextBacked]_vars

\* Boot, then cores calling PMM::allocate_single_page, their interrupt-enable flags set
\* or clear.
SpecPmmIrq == AnyInterrupts /\ [][NextPmm]_vars

\* A call of page_size_roundup on any byte size, in either kind of build.
AnySize ==
    /\ VpaInit /\ PmmInit /\ HeapInit /\ PagingInit /\ LockInit /\ SetInit /\ BackedInit
    /\ NoInterrupts
    /\ memory_map = <<Entry(0, 1, "Usable")>>
    /\ round_arg \in [bytes : 0..(U64 - 1), overflow_checks : BOOLEAN]
    /\ round_last = {}
    /\ CoreInit
    /\ OnceInit
    /\ LexInit
    /\ WalkInit
    /\ LayoutInit

NextRound ==
    \/ round_up

SpecRound == AnySize /\ [][NextRound]_vars

\* Initializations and reads of the boot-time singletons, in any order.
NextOnce ==
    \/ \E name \in Singletons, v \in OnceValues : call_once(name, v)
    \/ \E name \in Singletons : call_once_complete(name)
    \/ \E name \in Singletons : Once_get(name)

SpecOnce == MapOnly /\ [][NextOnce]_vars

\* A lexer constructed over any command line, and the calls made on it.
AnyCmdline ==
    /\ VpaInit /\ PmmInit /\ HeapInit /\ PagingInit /\ LockInit /\ SetInit /\ BackedInit
    /\ NoInterrupts
    /\ memory_map = <<Entry(0, 1, "Usable")>>
    /\ RoundInit /\ OnceInit /\ WalkInit /\ LayoutInit /\ CoreInit
    /\ lex_data \in UNION {[1..n -> Chars] : n \in 0..MaxChars}
    /\ lexer = {}
    /\ lex_calls = <<>>
    /\ lex_consumed = <<>>

NextLexer ==
    \/ new
    \/ next
    \/ \E tok \in Expected : expect_token(tok)
    \/ parse_block(Token("ClosedBrace", <<>>), Token("Comma", <<>>))

SpecLexer == AnyCmdline /\ [][NextLexer]_vars

\* Boot, then cores that map pages of both halves, the walk entry by entry.
NextWalk ==
    \/ PageTableSet_new
    \/ init_pdt
    \/ LockSteps
    \/ \E c \in Cores, call \in WalkCalls : walk_call(c, call)
    \/ WalkSteps

SpecWalk == MapOnly /\ [][NextWalk]_vars

(***************************************************************************)
(* Properties of the virtual page allocators.                              *)
(***************************************************************************)
Pages(r) == r.start..(r.end - 1)

Overlap(a, b) == Pages(a) \cap Pages(b) # {}

Range(s) == {s[i] : i \in 1..Len(s)}

\* The last call was TreeAllocator::free (directly or from a handle's drop).
TreeFreed == vpa_kind = "tree" /\ vpa_last.op \in {"free", "drop"}

\* The last call was TreeAllocator::allocate, asked for Requested pages.
TreeAllocated == vpa_kind = "tree" /\ vpa_last.op = "allocate"

Requested == vpa_last.padding + vpa_last.size + vpa_last.padding

Adjacent(s) == \E i, j \in 1..Len(s) : i # j /\ ~empty(s[i]) /\ ~empty(s[j])
                                       /\ s[i].end = s[j].start

\* C2: TreeAllocator.free(r) returns Err whenever r overlaps an existing free range,
\* and then the free ranges are the same before and after the call.
C2_OverlapRejected ==
    (TreeFreed /\ \E n \in Range(vpa_last.before) : Overlap(n, vpa_last.range))
        => (vpa_last.result = "Err" /\ by_base = vpa_last.before)

\* C3: after a successful free() no two free ranges are adjacent: a free on a tree
\* without adjacent free ranges leaves none, so two adjacent ranges freed in either
\* order end as one range.
C3_FreeLeavesNoAdjacentRanges ==
    (TreeFreed /\ vpa_last.result = "Ok" /\ ~Adjacent(vpa_last.before))
        => ~Adjacent(by_base)

\* C4: free([b,c)) with a left neighbour [a,b) and a right neighbour [c,d) free returns
\* Ok and leaves the one range [a,d) in place of the three; the number of free ranges
\* decreases by one.
C4_FreeMergesBothNeighbours ==
    \A l, r \in Range(vpa_last.before) :
        (/\ TreeFreed
         /\ ~empty(vpa_last.range) /\ ~empty(l) /\ ~empty(r)
         /\ l.end = vpa_last.range.start
         /\ vpa_last.range.end = r.start)
        => /\ vpa_last.result = "Ok"
           /\ Len(by_base) = Len(vpa_last.before) - 1
           /\ Range(by_base) = (Range(vpa_last.before) \ {l, r})
                                    \cup {VFRange(l.start, r.end)}

\* C8: an allocate that returns a base was served from a free range at least as large
\* as the request and no larger than any other free range that is large enough;
\* allocate returns None only when no free range is large enough.
C8_BestFit ==
    TreeAllocated =>
        /\ vpa_last.result = "Some" =>
              \E n \in Range(vpa_last.before) :
                  /\ n.start = vpa_last.base
                  /\ size(n) >= Requested
                  /\ n \notin Range(by_base) \/ Requested = 0
                  /\ \A m \in Range(vpa_last.before) :
                        size(m) >= Requested => size(n) <= size(m)
        /\ vpa_last.result = "None" =>
              \A m \in Range(vpa_last.before) : size(m) < Requested
        /\ vpa_last.result \in {"Some", "None"}

C8_Witness ==
    /\ TreeAllocated
    /\ vpa_last.result = "Some"
    /\ \E m \in Range(vpa_last.before) :
          m.start < vpa_last.base /\ size(m) > Requested

\* C9: allocate(size) that selects the free range [s,e) returns s, replaces the range
\* by [s+size,e) when that is not empty and removes it when it is, and leaves every
\* other free range as it was; seeded with [0,10) and [20,25), allocate(3) returns 20
\* and leaves exactly [0,10) and [23,25).
C9_AllocateFrame ==
    /\ (TreeAllocated /\ vpa_last.result = "Some") =>
          \E i \in 1..Len(vpa_last.before) :
              LET n == vpa_last.before[i]
                  rest == VFRange(n.start + Requested, n.end)
                  others == RemoveAt(vpa_last.before, i)
              IN  /\ vpa_last.base = n.start
                  /\ rest.start <= rest.end
                  /\ Len(by_base) = Len(others) + (IF empty(rest) THEN 0 ELSE 1)
                  /\ \A k \in 1..Len(others) : others[k] \in Range(by_base)
                  /\ ~empty(rest) => rest \in Range(by_base)
    /\ (/\ TreeAllocated
        /\ vpa_last.before = <<VFRange(0, 10), VFRange(20, 25)>>
        /\ Requested = 3)
        => /\ vpa_last.result = "Some"
           /\ vpa_last.base = 20
           /\ by_base = <<VFRange(0, 10), VFRange(23, 25)>>

C9_Witness ==
    /\ TreeAllocated
    /\ vpa_last.before = <<VFRange(0, 10), VFRange(20, 25)>>
    /\ Requested = 3
    /\ vpa_last.base = 20

\* The allocations handed out and not yet given back.
Live == {h.range : h \in handles \cup leaked}

\* C10: with callers that free only what they own, for either allocator every free
\* range has start <= end, free ranges do not overlap one another, no free range
\* overlaps a live allocation, and live allocations do not overlap one another.
C10_RangesDisjoint ==
    /\ \A i \in 1..Len(FreeList) : FreeList[i].start <= FreeList[i].end
    /\ \A i, j \in 1..Len(FreeList) : i # j => ~Overlap(FreeList[i], FreeList[j])
    /\ \A i \in 1..Len(FreeList) : \A a \in Live : ~Overlap(FreeList[i], a)
    /\ \A a, b \in Live : a # b => ~Overlap(a, b)

C10_Witness ==
    /\ TreeFreed
    /\ vpa_last.result = "Ok"
    /\ Len(by_base) >= 2
    /\ Cardinality(Live) >= 2

(***************************************************************************)
(* Properties of the physical page allocators.                             *)
(***************************************************************************)
\* The frames reached from `list` by following Free(next) links, for at most `fuel`
\* links; a descriptor that is not Free ends the walk.
RECURSIVE chain(_, _)
chain(list, fuel) ==
    IF list = {} \/ fuel = 0 THEN <<>>
    ELSE LET f == CHOOSE x \in list : TRUE
         IN  <<f>> \o (IF pdt[f].state = "Free" THEN chain(pdt[f].next, fuel - 1)
                       ELSE <<>>)

\* The chain from the head of the free list, followed one link further than there
\* are descriptors.
FreeChain == chain(free_list, pdt_len + 1)

\* C5: once the descriptor table is built, whatever allocate_single_page calls the
\* cores have made or are making, every frame reached from the head of the free list
\* has a Free descriptor, the chain ends in None, and no frame is on it twice.
C5_FreeListSound ==
    phase = "ready" =>
        LET ch == FreeChain
        IN  /\ \A k \in 1..Len(ch) : pdt[ch[k]].state = "Free"
            /\ Len(ch) <= pdt_len
            /\ \A i, j \in 1..Len(ch) : i # j => ch[i] # ch[j]

C5_Witness ==
    /\ phase = "ready"
    /\ Len(FreeChain) >= 2
    /\ \E f \in DOMAIN allocated : allocated[f] = 1
    /\ \E c \in 1..NumCores : pc[c] = "unlock" /\ head[c] # {}

\* C6: no frame is returned to two callers; a core between lock and unlock holds the
\* lock alone, the frame it pops is the head of the list as it found it under the
\* lock, and after the pop the head is the next link recorded in that frame.
C6_NoFrameReturnedTwice ==
    /\ \A f \in DOMAIN allocated : allocated[f] <= 1
    /\ \A c \in 1..NumCores :
          /\ pc[c] \in {"locked", "read", "unlock"} => pmm_lock = {c}
          /\ pc[c] = "read" => head[c] = free_list
          /\ (pc[c] = "unlock" /\ head[c] # {}) =>
                 /\ \A f \in head[c] : free_list = pdt[f].next /\ allocated[f] = 0
                 /\ \A d \in 1..NumCores : d # c => head[d] \cap head[c] = {}

C6_Witness ==
    /\ \E f \in DOMAIN allocated : allocated[f] = 1
    /\ \E c, d \in 1..NumCores :
          /\ pc[c] = "unlock" /\ head[c] # {} /\ free_list # {}
          /\ pc[d] = "idle"

\* The frames of Usable entries of the memory map, and the frames of all its entries.
UsableFrames ==
    UNION {at(i).start..(at(i).start + at(i).size - 1) :
           i \in {k \in 0..(Len(memory_map) - 1) : at(k).entry_type = "Usable"}}

MapFrames ==
    UNION {at(i).start..(at(i).start + at(i).size - 1) : i \in 0..(Len(memory_map) - 1)}

\* The frames a core has popped and not yet returned from allocate_single_page.
InFlight == UNION {head[c] : c \in {d \in 1..NumCores : pc[d] = "unlock"}}

Returned == {f \in DOMAIN allocated : allocated[f] > 0}

\* C7: after init_pdt a frame of the map has a Free descriptor exactly when it lies in
\* a Usable entry and the bootstrap allocator did not hand it out, and is Used
\* otherwise; the free list is made of exactly those frames, less the ones popped
\* since; the permanent allocator returns only such frames.
C7_FreeIffUsableAndUnclaimed ==
    phase = "ready" =>
        LET ch == FreeChain
            unclaimed == UsableFrames \ early_handed
        IN  /\ \A f \in MapFrames :
                  /\ pdt[f].state = "Free" <=> f \in unclaimed
                  /\ pdt[f].state # "Free" => pdt[f].state = "Used"
            /\ {ch[k] : k \in 1..Len(ch)} \cup InFlight \cup Returned = unclaimed
            /\ \A f \in Returned \cup InFlight : f \in unclaimed

C7_Witness ==
    /\ phase = "ready"
    /\ Returned = {} /\ InFlight = {}
    /\ \E f \in MapFrames : pdt[f].state = "Free"
    /\ \E f \in MapFrames \ UsableFrames : pdt[f].state = "Used"
    /\ \E i \in 0..(Len(memory_map) - 1) :
          /\ at(i).entry_type = "Usable"
          /\ at(i).start \in early_handed
          /\ at(i).start + at(i).size - 1 \notin early_handed

(***************************************************************************)
(* Properties of the heap.                                                 *)
(***************************************************************************)
\* C1: the limit of the heap stays within its range, and a handle_oom called when
\* the limit has reached the end of the range returns Err and maps nothing.
C1_LimitWithinRange ==
    \A h \in heap :
        /\ h.range.start <= h.limit /\ h.limit <= h.range.end
        /\ (heap_last.result # "-" /\ heap_last.before = h.range.end) =>
               (heap_last.result = "Err" /\ h.limit = heap_last.before)

(***************************************************************************)
(* Properties of map_range.                                                *)
(***************************************************************************)
\* The end of the range a call maps.
call_end(call) == call.virt + call.pages

\* C11: the calls of a map_range(base, phys, size) that returned map [base, base+size)
\* piece by piece: the first starts at base, each next one starts where the one before
\* it ends, the last ends at base+size, and each maps its first page v to the frame
\* phys + (v - base) with the alignment its page size asks for. So every page of the
\* range is mapped exactly once, to its frame, and no page outside it is mapped.
C11_MapRangeExact ==
    \A a \in mr_args :
        /\ mr_calls = <<>> <=> a.size = 0
        /\ mr_calls # <<>> =>
               /\ mr_calls[1].virt = a.base
               /\ call_end(mr_calls[Len(mr_calls)]) = a.base + a.size
        /\ \A k \in 1..Len(mr_calls) :
               /\ mr_calls[k].phys = a.phys + (mr_calls[k].virt - a.base)
               /\ mr_calls[k].asserted
               /\ k > 1 => mr_calls[k].virt = call_end(mr_calls[k - 1])

\* A map_range that made small, medium and large calls.
C11_Witness ==
    /\ mr_args # {}
    /\ \A kind \in {"small", "medium", "large"} :
           \E k \in 1..Len(mr_calls) : mr_calls[k].kind = kind

\* The page sizes a call at `call`'s cursors could use: both cursors are aligned to
\* it and it fits in what is left of the range.
Usable(call, end) ==
    {g \in {SMALL_PAGE_PAGE_SIZE, MEDIUM_PAGE_PAGE_SIZE, LARGE_PAGE_PAGE_SIZE} :
        /\ is_aligned(call.virt, g)
        /\ is_aligned(call.phys, g)
        /\ call.virt + g <= end}

Kinds == [k \in 1..Len(mr_calls) |-> mr_calls[k].kind]

\* C12: every call of map_range uses the largest page size that both cursors are
\* aligned to and that fits in the rest of the range; one aligned large page is mapped
\* by one large call, and 3 small pages followed by an aligned large page are mapped
\* by 3 small calls and one large call.
C12_LargestGranularity ==
    \A a \in mr_args :
        /\ \A k \in 1..Len(mr_calls) :
               \A g \in Usable(mr_calls[k], a.base + a.size) : g <= mr_calls[k].pages
        /\ /\ a.size = LARGE_PAGE_PAGE_SIZE
           /\ is_aligned(a.base, LARGE_PAGE_PAGE_SIZE)
           /\ is_aligned(a.phys, LARGE_PAGE_PAGE_SIZE)
           => Kinds = <<"large">>
        /\ /\ a.size = 3 + LARGE_PAGE_PAGE_SIZE
           /\ is_aligned(a.base + 3, LARGE_PAGE_PAGE_SIZE)
           /\ is_aligned(a.phys + 3, LARGE_PAGE_PAGE_SIZE)
           => Kinds = <<"small", "small", "small", "large">>

\* A map_range of 3 small pages followed by an aligned large page.
C12_Witness ==
    \E a \in mr_args :
        /\ a.size = 3 + LARGE_PAGE_PAGE_SIZE
        /\ is_aligned(a.base + 3, LARGE_PAGE_PAGE_SIZE)
        /\ is_aligned(a.phys + 3, LARGE_PAGE_PAGE_SIZE)
        /\ Len(mr_calls) = 4

(***************************************************************************)
(* Properties of the locks.                                                *)
(***************************************************************************)
\* C13: a core that holds the lock of the physical free list, or a guard of the heap's
\* IntMutex or of the global mapping lock, has its interrupts disabled.
C13_LockHoldersHaveInterruptsOff ==
    \A c \in Cores : pmm_lock = {c} \/ held(c) # {} => ~irq[c]

\* The cores that hold a guard of IntMutex m.
holders(m) == {c \in Cores : m \in held(c)}

\* C14: a core that holds an IntMutexGuard has its interrupts disabled; when a drop
\* comes to restore the interrupt state, the guard's flag has been cleared by it (the
\* flag is set only if another core took the mutex since); and after a drop the
\* interrupt-enable flag of the core is what it was when lock() was called, for the
\* innermost guard of a core as for its only one.
C14_InterruptsOffWhileHeld ==
    /\ \A c \in Cores : guards[c] # <<>> => ~irq[c]
    /\ \A c \in Cores :
           lk[c].pc = "drop_restore" =>
               /\ lk[c].mutex \notin held(c)
               /\ int_lock[lk[c].mutex] => holders(lk[c].mutex) \ {c} # {}
    /\ \A d \in dropped : d.after = d.before

\* A core that had its interrupts enabled took two IntMutexes, dropped the inner guard
\* and then the outer one, and has its interrupts enabled again.
C14_Witness ==
    \E c \in Cores :
        /\ dropped = {[core |-> c, before |-> TRUE, after |-> TRUE]}
        /\ lk[c].pc = "idle"
        /\ guards[c] = <<>>
        /\ irq[c]

\* C15: at most one guard of an IntMutex exists at any time, and while it exists the
\* flag of the mutex is set.
C15_MutualExclusion ==
    \A m \in Mutexes :
        /\ Cardinality(holders(m)) <= 1
        /\ \A c \in Cores : Cardinality({k \in 1..Len(guards[c]) : guards[c][k].mutex = m}) <= 1
        /\ holders(m) # {} => int_lock[m]

\* A core holds the guard of an IntMutex while another core, whose swap found the flag
\* set, spins on it.
C15_Witness ==
    \E c, d \in Cores :
        /\ c # d
        /\ lk[d].pc = "spin"
        /\ lk[d].mutex \in held(c)

\* C16: a core that performs the action of a map_page_* call whose target address is
\* the base of the higher half or above it holds the global mapping lock, and a core in
\* a call whose target lies below the base never takes the lock.
C16_UpperHalfMappedUnderLock ==
    \A c \in Cores : \A call \in mapping[c] :
        IF address(call.virt) >= get_higher_half_addr
        THEN lk[c].pc = "action" => "page" \in held(c)
        ELSE lk[c].pc = "action" /\ "page" \notin held(c)

(***************************************************************************)
(* Properties of the page-table sets.                                      *)
(***************************************************************************)
\* A page below root entry `index` is mapped in table set ts.
visible(ts, index, page) ==
    /\ pt_roots[ts][index] # 0
    /\ page \in pt_subs[pt_roots[ts][index]]

\* C17: a table set made by duplicate() has its own root table; every root entry that
\* was present when it was made is the same in it and in the set it was copied from,
\* so the pages mapped below that entry through either set are visible through both;
\* a root entry that was not present then and was created later in one of the two sets
\* is not the other set's entry. The table sets of the cores share every root entry of
\* the upper half, so a page mapped below one of these entries is visible through all.
C17_DuplicateSharesPresentEntries ==
    /\ \A ts \in 1..Len(pt_roots) : \A o \in pt_origin[ts] :
           /\ ts # o.set
           /\ \A i \in DOMAIN o.entries :
                  IF o.entries[i] # 0
                  THEN /\ pt_roots[ts][i] = o.entries[i]
                       /\ pt_roots[o.set][i] = o.entries[i]
                       /\ \A page \in PagesBelow :
                              visible(ts, i, page) <=> visible(o.set, i, page)
                  ELSE pt_roots[ts][i] # 0 \/ pt_roots[o.set][i] # 0
                           => pt_roots[ts][i] # pt_roots[o.set][i]
    /\ \A c, d \in Cores : \A s \in local_pt[c], t \in local_pt[d] :
           \A i \in kernel_root_entries :
               /\ pt_roots[s][i] # 0
               /\ \A page \in PagesBelow : visible(s, i, page) <=> visible(t, i, page)

\* A duplicated table set: a lower-half entry that was present at the duplication has
\* pages mapped below it, and a page is mapped below the first upper-half entry.
C17_Witness ==
    \E ts \in 1..Len(pt_roots) : \E o \in pt_origin[ts] :
        \E low \in RootIndices \ kernel_root_entries, high \in kernel_root_entries :
            /\ visible(ts, high, 1)
            /\ o.entries[low] # 0
            /\ visible(ts, low, 0)
            /\ visible(o.set, low, 1)

(***************************************************************************)
(* Properties of the allocation handles.                                   *)
(***************************************************************************)
\* The pages of the free ranges of a free list.
FreePages(list) == UNION {Pages(list[i]) : i \in 1..Len(list)}

\* C18: the drop of a handle that was not leaked ends without a panic and returns
\* every page of the handle's range, padding included, to the free set, which held
\* none of them before.
C18_DropReturnsRange ==
    vpa_last.op = "drop" =>
        /\ vpa_last.result = "Ok"
        /\ ~vpa_halted
        /\ Pages(vpa_last.range) \cap FreePages(vpa_last.before) = {}
        /\ FreePages(FreeList) = FreePages(vpa_last.before) \cup Pages(vpa_last.range)

\* The padding pages of an allocation.
Padding(h) == Pages(h.range) \ Pages(h.usable)

\* C19: an allocate_padded(size, padding) that returns a handle takes the pages
\* [b, b+padding+size+padding) out of the free set and no other page, and the handle's
\* usable range is [b+padding, b+padding+size); the padding pages of a live handle are
\* not free and belong to no other allocation.
C19_PaddedAllocation ==
    /\ (vpa_last.op = "allocate" /\ vpa_last.result = "Some") =>
           LET b == vpa_last.base
           IN  /\ FreePages(vpa_last.before) \ FreePages(FreeList)
                      = b..(b + Requested - 1)
               /\ FreePages(FreeList) \subseteq FreePages(vpa_last.before)
               /\ [range |-> VFRange(b, b + Requested),
                   usable |-> VFRange(b + vpa_last.padding,
                                      b + vpa_last.padding + vpa_last.size)]
                      \in handles \cup leaked
    /\ \A h \in handles :
           /\ Padding(h) \cap FreePages(FreeList) = {}
           /\ \A g \in (handles \cup leaked) \ {h} : Padding(h) \cap Pages(g.range) = {}

\* An allocation with padding on both sides is live, next to another allocation.
C19_Witness ==
    /\ vpa_last.op = "allocate"
    /\ vpa_last.result = "Some"
    /\ vpa_last.padding > 0
    /\ \E h \in handles : \E g \in (handles \cup leaked) \ {h} :
           /\ h.range.start = vpa_last.base
           /\ g.range.end = h.range.start

\* C20: an allocate_padded or allocate_backed_padded for which no free range is large
\* enough returns None without a panic and leaves the free ranges as they were, and
\* the backed call takes no frame and maps no page.
C20_NoFitReturnsNone ==
    (/\ vpa_last.op \in {"allocate", "allocate_backed"}
     /\ \A i \in 1..Len(vpa_last.before) : size(vpa_last.before[i]) < Requested)
        => /\ vpa_last.result = "None"
           /\ ~vpa_halted
           /\ FreeList = vpa_last.before
           /\ vpa_last.op = "allocate_backed" =>
                  backed_last = [frames |-> 0, mapped |-> {}]

\* allocate_backed_padded returned None on the tree allocator, which has free ranges,
\* after an earlier call took frames and mapped pages.
C20_Witness ==
    /\ vpa_last.op = "allocate_backed"
    /\ vpa_last.result = "None"
    /\ vpa_kind = "tree"
    /\ by_base # <<>>
    /\ backed # {}

(***************************************************************************)
(* Properties of the physical allocators, continued.                       *)
(***************************************************************************)
\* C21: PMM::allocate_single_page that finds the free list empty panics: the call
\* returns no frame, the free list is empty when it ends, and the core goes from the
\* read of the empty head to the panic without another attempt.
C21_EmptyFreeListPanics ==
    [][\A c \in 1..NumCores :
           (head[c] = {} /\ pc[c] \in {"read", "unlock"} /\ pc'[c] # pc[c]) =>
               /\ pc'[c] = IF pc[c] = "read" THEN "unlock" ELSE "panicked"
               /\ allocated' = allocated
               /\ free_list = {}
               /\ free_list' = {}]_vars

\* A core has panicked on the empty free list after the frames of the list were
\* returned to earlier calls.
C21_Witness ==
    /\ phase = "ready"
    /\ free_list = {}
    /\ \E c \in 1..NumCores : pc[c] = "panicked"
    /\ \E f \in DOMAIN allocated : allocated[f] > 0

(***************************************************************************)
(* Properties of the sizes.                                                *)
(***************************************************************************)
\* C22: for every byte size b of a u64, page_size_roundup(b) returns, and its result
\* converted to bytes is a multiple of the page size, is >= b and exceeds b by less
\* than a page.
C22_RoundupCoversBytes ==
    \A r \in round_last :
        /\ r.result = "Ok"
        /\ r.pages * PAGE_SMALL_SIZE >= r.bytes
        /\ r.pages * PAGE_SMALL_SIZE - r.bytes < PAGE_SMALL_SIZE
        /\ r.back = {r.pages * PAGE_SMALL_SIZE}

(***************************************************************************)
(* Properties of the boot-time singletons.                                 *)
(***************************************************************************)
\* C23: a boot-time singleton that holds a value holds the value of its first
\* initialization call, whatever calls came later; a read returns that value, and a
\* read made before the first initialization has stored its value panics.
C23_FirstInitializationWins ==
    /\ \A name \in Singletons :
           once[name].status = "Complete" =>
               /\ once_calls[name] # <<>>
               /\ once[name].value = once_calls[name][1]
    /\ once_last.op = "get" =>
           /\ once_last.result \in {"Some", "panic"}
           /\ once_last.inits = 0 => once_last.result = "panic"
           /\ once_last.result = "Some" =>
                  once_last.value = once_calls[once_last.name][1]

\* A singleton was initialized a second time with another value and then read.
C23_Witness ==
    /\ once_last.op = "get"
    /\ once_last.result = "Some"
    /\ Len(once_calls[once_last.name]) = 2
    /\ once_calls[once_last.name][2] # once_calls[once_last.name][1]

(***************************************************************************)
(* Properties of the command-line lexer.                                   *)
(***************************************************************************)
\* The command line holds no character that starts no token.
Lexes(toks) == \A i \in 1..Len(toks) : toks[i].kind # "BadToken"

\* C24: on a lexer freshly constructed over an input of three tokens A B C, expect(B)
\* returns Ok and the next() after it returns C, and expect(X) with X # B returns
\* Err(ExpectedToken {actual: B, expected: X}).
C24_ExpectChecksSecondToken ==
    LET toks == tokens(lex_data, 1)
    IN  (/\ Len(toks) = 3
         /\ Lexes(toks)
         /\ Len(lex_calls) >= 2
         /\ lex_calls[2].op = "expect") =>
            IF lex_calls[2].arg = toks[2]
            THEN /\ lex_calls[2].result = "Ok"
                 /\ (Len(lex_calls) >= 3 /\ lex_calls[3].op = "next") =>
                        /\ lex_calls[3].result = "Ok"
                        /\ lex_calls[3].token = toks[3]
            ELSE /\ lex_calls[2].result = "Err"
                 /\ lex_calls[2].error = ExpectedToken(toks[2], lex_calls[2].arg)

\* The tokens are '{', then identifiers with at most one comma between two of them,
\* then '}'.
IsBlock(toks) ==
    /\ Len(toks) >= 3
    /\ toks[1].kind = "OpenBrace"
    /\ toks[Len(toks)].kind = "ClosedBrace"
    /\ toks[2].kind = "Identifier"
    /\ toks[Len(toks) - 1].kind = "Identifier"
    /\ \A i \in 2..(Len(toks) - 1) :
           \/ toks[i].kind = "Identifier"
           \/ toks[i].kind = "Comma" /\ toks[i + 1].kind = "Identifier"

\* C25: on a lexer freshly constructed over '{', identifiers separated by commas or by
\* white space, and '}', parse_block(ClosedBrace, Comma, h) with the handler that
\* consumes one token returns Ok, and every token the handler consumes is an
\* Identifier.
C25_ParseBlockOverBraces ==
    (/\ IsBlock(tokens(lex_data, 1))
     /\ Len(lex_calls) >= 2
     /\ lex_calls[2].op = "parse_block") =>
        /\ lex_calls[2].result = "Ok"
        /\ \A i \in 1..Len(lex_consumed) : lex_consumed[i].kind = "Identifier"

(***************************************************************************)
(* Properties of the walk.                                                 *)
(***************************************************************************)
\* The page is mapped in the table set of core c: the walk from the root of the set
\* reaches a PT whose entry for the page is written.
translated(c, virt) ==
    \E pdpt \in entry_of(pt_entry, c, pml4_index(virt)) :
        \E pd \in entry_of(pt_entry, pdpt, pdpt_index(virt)) :
            \E pt \in entry_of(pt_entry, pd, pd_index(virt)) :
                <<pt, pt_index(virt)>> \in pt_leaves

\* The pages that core c maps or has mapped.
PagesOf(c) ==
    {call.virt : call \in mapping[c]} \cup {d.virt : d \in {x \in walk_done : x.core = c}}

\* C26: when cores map different pages of the upper half concurrently, every table
\* allocated for a slot stays installed and every page whose map_page_small call has
\* returned is mapped, in every table set when it is a page of the upper half; a core
\* that maps a page of the lower half does not take the lock.
C26_SharedTablesCreatedOnce ==
    (\A c \in Cores : \A d \in Cores \ {c} : PagesOf(c) \cap PagesOf(d) = {}) =>
    /\ \A f \in (KernelPdpt + 1)..(pt_next - 1) : \E e \in pt_entry : e[3] = f
    /\ \A d \in walk_done :
           \A c \in Cores :
               (c = d.core \/ d.virt >= LARGE_PAGE_PAGE_SIZE) => translated(c, d.virt)
    /\ \A c \in Cores : \A call \in mapping[c] :
           call.virt < LARGE_PAGE_PAGE_SIZE =>
               /\ lk[c].pc \in {"action", "idle"}
               /\ "page" \notin held(c)

(***************************************************************************)
(* Properties of the two indexes of the tree allocator.                    *)
(***************************************************************************)
\* How many nodes of the tree hold the range r.
Count(tree, r) == Cardinality({i \in 1..Len(tree) : tree[i] = r})

\* C27: between the operations of the tree allocator the nodes of by_base are the
\* nodes of by_size: every range is held by as many nodes of the one as of the other.
C27_IndexesHoldSameNodes ==
    vpa_kind = "tree" =>
        /\ Len(by_base) = Len(by_size)
        /\ \A r \in Range(by_base) \cup Range(by_size) :
               Count(by_base, r) = Count(by_size, r)

\* A free has absorbed the free range to its right.
C27_Witness ==
    /\ TreeFreed
    /\ vpa_last.result = "Ok"
    /\ Len(by_base) = Len(vpa_last.before)
    /\ vpa_last.range \notin Range(by_base)
    /\ by_base # <<>>

(***************************************************************************)
(* Properties of the bootstrap physical allocator and of init_pdt.         *)
(***************************************************************************)
\* The places (entry index, offset) of the frames of Usable entries.
UsablePlaces ==
    {p \in (0..(Len(memory_map) - 1)) \X (0..(MaxEntrySize - 1)) :
        at(p[1]).entry_type = "Usable" /\ p[2] < at(p[1]).size}

FrameAt(p) == at(p[1]).start + p[2]

Before(p, q) == p[1] < q[1] \/ (p[1] = q[1] /\ p[2] < q[2])

\* C28: the bootstrap allocator returns frames of Usable entries only; a call returns
\* a frame that no earlier call returned and that comes later, in (entry index,
\* offset) order, than every frame returned before it, and that is the first frame
\* of a Usable entry at or after the cursor; is_used(i, o) holds for a frame of a
\* Usable entry exactly when the frame was returned; a call made when no frame of a
\* Usable entry is left panics.
C28_ForwardScanOverUsableFrames ==
    /\ [](phase # "halted" =>
            /\ early_handed \subseteq UsableFrames
            /\ \A p \in UsablePlaces :
                   is_used(early_pmm, p[1], p[2]) <=> FrameAt(p) \in early_handed)
    /\ [][/\ \A p \in UsablePlaces :
                 FrameAt(p) \in early_handed' \ early_handed =>
                     /\ \A q \in UsablePlaces :
                            FrameAt(q) \in early_handed => Before(q, p)
                     /\ \A q \in UsablePlaces :
                            Before(q, p) => FrameAt(q) \in early_handed'
          /\ (/\ phase = "boot"
              /\ UsableFrames \subseteq early_handed
              /\ early_pmm' # early_pmm) =>
                 (phase' = "halted" /\ early_handed' = early_handed)]_vars

\* The allocator has skipped an entry that is not Usable and returned a frame of the
\* Usable entry after it.
C28_Witness ==
    /\ phase = "boot"
    /\ \E i \in 1..(Len(memory_map) - 1) :
           /\ at(i - 1).entry_type # "Usable"
           /\ at(i).entry_type = "Usable"
           /\ at(i).start \in early_handed

\* C29: when init_pdt has returned, every page of the descriptor array that holds the
\* descriptor of a frame of the memory map is mapped, to one frame only, a frame that
\* the bootstrap allocator returned and that backs no other page; the bootstrap
\* allocator is frozen, and every descriptor that was written and every descriptor
\* on the free list lies in a mapped page.
C29_DescriptorPagesMappedFirst ==
    phase = "ready" =>
        LET pages == {(PAGE_INFO_SIZE * f) \div PAGE_SMALL_SIZE : f \in MapFrames}
            ch == FreeChain
        IN  /\ {m[1] : m \in pdt_mapped} = pages
            /\ \A m, n \in pdt_mapped : (m[1] = n[1] \/ m[2] = n[2]) => m = n
            /\ \A m \in pdt_mapped : m[2] \in early_handed
            /\ early_pmm.is_frozen
            /\ \A f \in DOMAIN pdt :
                   pdt[f].state # "Uninit" =>
                       (PAGE_INFO_SIZE * f) \div PAGE_SMALL_SIZE \in {m[1] : m \in pdt_mapped}
            /\ \A k \in 1..Len(ch) :
                   (PAGE_INFO_SIZE * ch[k]) \div PAGE_SMALL_SIZE \in {m[1] : m \in pdt_mapped}

\* init_pdt has mapped two pages of the descriptor array.
C29_Witness ==
    /\ phase = "ready"
    /\ Cardinality(pdt_mapped) >= 2
    /\ free_list # {}

\* C30: init_pdt returns with the bootstrap allocator frozen; from then on the cursor
\* of the allocator and the frames it has returned never change, so is_used answers
\* the same from then on; a call of allocate_single_page made after the freeze
\* panics, and no step of the boot is taken after the freeze.
C30_FrozenAllocatorIsInert ==
    /\ [][(phase = "ready" \/ early_pmm.is_frozen) =>
              /\ early_pmm' = early_pmm
              /\ early_handed' = early_handed
              /\ \A p \in UsablePlaces :
                     is_used(early_pmm', p[1], p[2]) <=> is_used(early_pmm, p[1], p[2])
              /\ phase' # phase => phase' = "halted"]_vars
    /\ [](phase = "ready" => (early_pmm.is_frozen /\ ~ENABLED Boot))
    /\ [](early_pmm.is_frozen => phase \in {"ready", "halted"})

\* A call was made on the frozen allocator.
C30_Witness ==
    /\ early_pmm.is_frozen
    /\ phase = "halted"

(***************************************************************************)
(* Properties of mem::init.                                                *)
(***************************************************************************)
\* C31: the steps of init return in the order layout, page-table set, paging, descriptor
\* table, heap, tree allocator, GLOBAL_VPA; no step panics on a singleton that is
\* not initialized; the permanent physical allocator hands out frames and the heap
\* grows only after init_pdt and init_malloc, the trees change only when the heap
\* exists; the bootstrap physical allocator moves only before init_pdt has returned
\* and the free list of the bootstrap virtual allocator only before the tree
\* allocator exists.
C31_InitInOrder ==
    /\ [](init_panic \cap {"pdt not initialized", "alloc not initialized"} = {})
    /\ [][LET order == <<"layout", "tables", "paging", "pdt", "heap", "box", "tree", "vpa">>
          IN  \A k \in 1..Len(order) :
                  (init_done(order[k])' /\ ~init_done(order[k])) =>
                      /\ \A j \in 1..(k - 1) : init_done(order[j])
                      /\ \A j \in (k + 1)..Len(order) : ~init_done(order[j])']_vars
    /\ [][/\ (\E f \in DOMAIN allocated : allocated'[f] > allocated[f]) =>
                 (phase = "ready" /\ heap # {})
          /\ heap_mapped' # heap_mapped => (phase = "ready" /\ heap # {})
          /\ (by_base' # by_base \/ by_size' # by_size) =>
                 (heap # {} /\ vpa_kind' = "tree" /\ free_ranges' = <<>>)
          /\ (early_pmm' # early_pmm \/ early_handed' # early_handed) =>
                 (phase = "boot" /\ free_list = {})
          /\ free_ranges' # free_ranges => vpa_kind \in {"none", "early"}]_vars

\* init has returned and the tree allocator has handed out pages.
C31_Witness ==
    /\ init_returned
    /\ heap_mapped # {}
    /\ handles # {}

\* C32: reserve_range(r) with r not empty returns Ok exactly when one free range
\* contains r; then the free pages are the free pages before without the pages of r
\* and the free list is sorted by start; otherwise it returns Err and the free list
\* is the one before. The free pages of the bootstrap allocator never grow and an
\* allocation returns free pages only, so no page of r is returned later.
C32_ReserveOkIffInsideOneRange ==
    /\ [](vpa_last.op = "reserve" /\ ~empty(vpa_last.range) =>
            LET r == vpa_last.range
                before == vpa_last.before
                inside == \E i \in 1..Len(before) :
                              before[i].start <= r.start /\ r.end <= before[i].end
            IN  /\ vpa_last.result = IF inside THEN "Ok" ELSE "Err"
                /\ inside => /\ FreePages(free_ranges) = FreePages(before) \ Pages(r)
                             /\ is_sorted(free_ranges)
                /\ ~inside => free_ranges = before)
    /\ [][vpa_kind' \in {"reserving", "early", "failed"} =>
              /\ FreePages(free_ranges') \subseteq FreePages(free_ranges) \cup Pages(vm_range')
              /\ vpa_kind # "none" => FreePages(free_ranges') \subseteq FreePages(free_ranges)
              /\ \A h \in handles' \ handles : Pages(h.range) \subseteq FreePages(free_ranges)]_vars

\* C32 as amended: the statement holds while the free list holds fewer than
\* EARLY_CAPACITY ranges; on a free list of EARLY_CAPACITY ranges reserve_range(r)
\* with r inside one free range panics, and it returns Err, the free list unchanged,
\* when no free range contains r.
C32_ReserveWithinCapacity ==
    /\ [](vpa_last.op = "reserve" /\ ~empty(vpa_last.range) =>
            LET r == vpa_last.range
                before == vpa_last.before
                inside == \E i \in 1..Len(before) :
                              before[i].start <= r.start /\ r.end <= before[i].end
                full == Len(before) >= EARLY_CAPACITY
            IN  /\ vpa_last.result = IF ~inside THEN "Err" ELSE IF full THEN "panic" ELSE "Ok"
                /\ vpa_last.result = "Ok" =>
                       /\ FreePages(free_ranges) = FreePages(before) \ Pages(r)
                       /\ is_sorted(free_ranges)
                /\ vpa_last.result = "Err" => free_ranges = before)
    /\ [][vpa_kind' \in {"reserving", "early", "failed"} =>
              /\ vpa_kind # "none" => FreePages(free_ranges') \subseteq FreePages(free_ranges)
              /\ \A h \in handles' \ handles :
                     /\ Pages(h.range) \subseteq FreePages(free_ranges)
                     /\ Pages(h.range) \cap FreePages(free_ranges') = {}]_vars

\* A range was reserved out of the middle of a free range, and the allocator built
\* over the rest has handed out pages.
C32_Witness ==
    /\ vpa_kind = "early"
    /\ Len(free_ranges) >= 1
    /\ handles # {}
    /\ FreePages(free_ranges) \cup UNION {Pages(h.range) : h \in handles} # Pages(vm_range)

(***************************************************************************)
(* Properties of the hand-over from the bootstrap allocator to the tree.   *)
(***************************************************************************)
\* The pages taken during bootstrap: the direct-map reservation and the leaked
\* descriptor-table and heap regions, each with its padding.
BootstrapPages ==
    UNION {Pages(h.range) : h \in leaked}
        \cup UNION {(l.hhdm_base - LayoutPadding)..(l.hhdm_end + LayoutPadding - 1) :
                        l \in vm_layout}

\* C33: the step VirtualAllocator::tree(early) leaves both indexes of the tree holding
\* exactly the free pages of the bootstrap allocator, and no allocate of the tree
\* allocator returns a page of the direct-map reservation, of the descriptor-table
\* region or of the heap region, padding included.
C33_TreeSeededFromLeftovers ==
    /\ [][vpa_kind = "early" /\ vpa_kind' = "tree" =>
              /\ FreePages(by_base') = FreePages(free_ranges)
              /\ FreePages(by_size') = FreePages(free_ranges)
              /\ FreePages(by_base') \cap BootstrapPages = {}]_vars
    /\ [][vpa_kind' = "tree" =>
              \A h \in handles' \ handles : Pages(h.range) \cap BootstrapPages' = {}]_vars

\* mem::init has stored the layout and built the tree, and the tree allocator has
\* returned an allocation.
C33_Witness ==
    /\ vpa_kind = "tree"
    /\ vm_layout # {}
    /\ leaked # {}
    /\ vpa_last.op = "allocate"
    /\ vpa_last.result = "Some"
    /\ handles # {}

(***************************************************************************)
(* Properties of the layout of the descriptor table.                       *)
(***************************************************************************)
\* C36: for every frame index below hhdm_size the page holding its descriptor,
\* at pdt_base + size_of(Page) * i, lies inside [pdt_base, pdt_end) of the stored
\* layout, and so does every page init_pdt maps for the table.
C36_DescriptorsInsideRegion ==
    \A l \in vm_layout :
        /\ \A i \in 0..(l.hhdm_size - 1) :
               l.pdt_base + page_map_requested(i) < l.pdt_end
        /\ \A m \in pdt_mapped : l.pdt_base + m[1] < l.pdt_end

(***************************************************************************)
(* Properties of the descriptor states.                                    *)
(***************************************************************************)
\* C35: whenever no core is inside allocate_pages, a frame that
\* allocate_single_page has returned has a Used descriptor, and a descriptor is Free
\* exactly when its frame is on the free list.
C35_AllocatedFramesAreUsed ==
    (phase = "ready" /\ pmm_lock = {}) =>
        LET ch == FreeChain
        IN  /\ \A f \in DOMAIN allocated : allocated[f] > 0 => pdt[f].state = "Used"
            /\ \A f \in DOMAIN pdt :
                   pdt[f].state = "Free" <=> \E k \in 1..Len(ch) : ch[k] = f

(***************************************************************************)
(* Properties of backed allocations, continued.                            *)
(***************************************************************************)
\* C37: a successful allocate_backed_padded(size, padding) maps exactly the pages of
\* the usable range [b + padding, b + padding + size), to `size` distinct frames, and
\* leaves the padding pages on both sides unmapped.
C37_BackingCoversUsableOnly ==
    (vpa_last.op = "allocate_backed" /\ vpa_last.result = "Some") =>
        LET usable == sized(vpa_last.base + vpa_last.padding, vpa_last.size)
            whole == sized(vpa_last.base, vpa_last.padding + vpa_last.size + vpa_last.padding)
        IN  /\ {m[1] : m \in backed_last.mapped} = Pages(usable)
            /\ Cardinality({m[2] : m \in backed_last.mapped}) = vpa_last.size
            /\ \A m \in backed_last.mapped : m[1] \notin Pages(whole) \ Pages(usable)

(***************************************************************************)
(* Properties of map_range, continued.                                     *)
(***************************************************************************)
\* The cursor of map_range after the calls `calls`, from `base`.
cursor_after(base, calls) ==
    base + Cardinality({k \in 1..Len(calls) : calls[k].kind = "small"})
         + MEDIUM_PAGE_PAGE_SIZE * Cardinality({k \in 1..Len(calls) : calls[k].kind = "medium"})
         + LARGE_PAGE_PAGE_SIZE * Cardinality({k \in 1..Len(calls) : calls[k].kind = "large"})

\* The alignment assertions of the medium and large calls among `calls` hold.
aligned_calls(calls) ==
    \A k \in 1..Len(calls) :
        /\ calls[k].kind = "medium" =>
               /\ is_aligned(calls[k].virt, MEDIUM_PAGE_PAGE_SIZE)
               /\ is_aligned(calls[k].phys, MEDIUM_PAGE_PAGE_SIZE)
        /\ calls[k].kind = "large" =>
               /\ is_aligned(calls[k].virt, LARGE_PAGE_PAGE_SIZE)
               /\ is_aligned(calls[k].phys, LARGE_PAGE_PAGE_SIZE)

\* C38: whatever base, physical base and size map_range is called with, whether or not
\* the frames share the alignment of the pages, every map_page_medium call it issues
\* has its page and its frame medium-aligned, every map_page_large call has both
\* large-aligned, and the cursor ends at base + size; no call of map_range ends in a
\* failed assertion.
C38_NoAlignmentAssertionFails ==
    /\ \A a \in mr_args :
           /\ aligned_calls(mr_calls)
           /\ cursor_after(a.base, mr_calls) = a.base + a.size
    /\ ENABLED (\E a \in MapArgs : map_range(a.base, a.phys, a.size)) =>
           \A a \in MapArgs :
               LET calls == map_range_calls(a.base, a.phys, a.size)
               IN  /\ aligned_calls(calls)
                   /\ cursor_after(a.base, calls) = a.base + a.size

\* A map_range to frames that share the alignment of the pages up to a medium page
\* only, over more than a large page: it made medium calls and no large one.
C38_Witness ==
    \E a \in mr_args :
        /\ (a.phys - a.base) % MEDIUM_PAGE_PAGE_SIZE = 0
        /\ (a.phys - a.base) % LARGE_PAGE_PAGE_SIZE # 0
        /\ a.size > LARGE_PAGE_PAGE_SIZE
        /\ \E k \in 1..Len(mr_calls) : mr_calls[k].kind = "medium"
        /\ \A k \in 1..Len(mr_calls) : mr_calls[k].kind # "large"

(***************************************************************************)
(* Properties of GlobalAllocImpl::realloc.                                 *)
(***************************************************************************)
\* C34: in a realloc that grows a block and cannot do it in place, the core holds the
\* heap lock when the new block is allocated and when the old one is freed; with an
\* old size above 0x10000 it does not hold the lock during the copy and has taken it
\* again before the free; with an old size of at most 0x10000 it holds the lock from
\* the allocation through the copy to the free.  When the allocation fails realloc
\* returns null, without the lock, and the old block is live and as it was.
C34_ReallocLockHolding ==
    /\ [](\A c \in Cores : \A old \in ra[c].old :
            /\ ra[c].pc \in {"malloc", "drop", "free"} => locks["heap"] = {c}
            /\ ra[c].pc \in {"lock", "relock"} => c \notin locks["heap"]
            /\ ra[c].pc \in {"copy", "relock"} /\ old.size > COPY_THRESHOLD =>
                   c \notin locks["heap"]
            /\ ra[c].pc \in {"drop", "copy", "relock", "free"} /\ old.size <= COPY_THRESHOLD =>
                   /\ locks["heap"] = {c}
                   /\ ra[c].pc \in {"copy", "free"}
            /\ ra[c].pc = "idle" => c \notin locks["heap"]
            /\ ra[c].pc \in {"lock", "malloc", "drop", "copy", "relock", "free"} =>
                   old \in blocks
            /\ ra[c].result = "moved" =>
                   \E dst \in ra[c].new : dst.data = old.data /\ dst.size = old.size + 1)
    /\ [][\A c \in Cores :
              ra[c].pc # "idle" /\ ra'[c] # ra[c] =>
                  /\ \A b \in blocks' \ blocks : b.data = 0 => locks["heap"] = {c}
                  /\ ra[c].old \cap blocks # ra[c].old \cap blocks' => locks["heap"] = {c}
                  /\ ra'[c].result = "null" =>
                         /\ ra[c].old \subseteq blocks'
                         /\ blocks' = blocks
                         /\ c \notin locks'["heap"]]_vars

\* A core copies a block of more than 0x10000 bytes without the heap lock while
\* another core, inside its own realloc, holds the lock.
C34_Witness ==
    \E c, d \in Cores :
        /\ c # d
        /\ ra[c].pc = "copy"
        /\ \E old \in ra[c].old : old.size > COPY_THRESHOLD
        /\ locks["heap"] = {d}
        /\ ra[d].pc \in {"malloc", "copy", "free"}

(***************************************************************************)
(* Properties of the order of the locks.                                   *)
(***************************************************************************)
\* The order of the locks: virtual allocator, heap, kernel mapping, free list.
LockRank == [vpa |-> 1, heap |-> 2, page |-> 3, pmm |-> 4]

\* The lock a core spins on.
wanted(c) ==
    IF prog[c] # <<>> /\ Head(prog[c]).op = "lock" /\ locks[Head(prog[c]).m] # {}
    THEN {Head(prog[c]).m} ELSE {}

\* A set of cores each of which spins on a lock held by a core of the set.
Deadlocked(S) ==
    /\ S # {}
    /\ \A c \in S : \E m \in wanted(c) : locks[m] \subseteq S

\* C39: a core takes a lock only while every lock it holds is earlier in the order
\* virtual allocator, heap, kernel mapping, free list (so it never takes a lock it
\* holds), a lock has one holder at most, and with the cores running virtual
\* allocation and release, heap allocation with growth, mapping and physical
\* allocation side by side no set of cores waits for each other.
C39_LocksTakenInOrder ==
    /\ [](/\ \A m \in LockNames : Cardinality(locks[m]) <= 1
          /\ \A S \in SUBSET Cores : ~Deadlocked(S)
          /\ \A c \in Cores : prog[c] = <<>> => \A m \in LockNames : c \notin locks[m])
    /\ [][\A c \in Cores, m \in LockNames :
              c \in locks'[m] /\ c \notin locks[m] =>
                  \A h \in LockNames : c \in locks[h] => LockRank[h] < LockRank[m]]_vars

\* A core holds the four locks at once, inside a free that grows the heap and creates
\* a page table, while another core spins on one of them.
C39_Witness ==
    \E c, d \in Cores :
        /\ c # d
        /\ \A m \in LockNames : locks[m] = {c}
        /\ wanted(d) # {}

====
